---- MODULE Spec2Model ----
(***************************************************************************)
(* Model of the per-user turn scheduler of blimsey                         *)
(* (src/handlers/telegram_handler.py, src/core/ai_engine.py) and of the    *)
(* profile merge of src/core/summary_manager.py.                           *)
(*                                                                         *)
(* Text is a sequence of one-character strings, so that strip, split,      *)
(* join, repr and sorting are computed as Python computes them.            *)
(***************************************************************************)
EXTENDS Integers, Sequences, FiniteSets, TLC

----------------------------------------------------------------------------
(* Bounds of the model.                                                    *)

\* number of profile merges explored by SpecMerge
MaxMerges == 3

\* number of inbound messages (each owns one debounce timer, and at most one
\* reply thread and one deadline timer)
MaxMsgs == 2

\* number of inbound messages explored by SpecBurst, where one user sends them
\* and every Telegram and backend call succeeds
MaxBurst == 3

----------------------------------------------------------------------------
(* Python string primitives.                                               *)

UpperLetters ==
    << "A", "B", "C", "D", "E", "F", "G", "H", "I", "J", "K", "L", "M", "N", "O", "P", "Q", "R",
       "S", "T", "U", "V", "W", "X", "Y", "Z", "É", "Ñ", "Ó" >>

LowerLetters ==
    << "a", "b", "c", "d", "e", "f", "g", "h", "i", "j", "k", "l", "m", "n", "o", "p", "q", "r",
       "s", "t", "u", "v", "w", "x", "y", "z", "é", "ñ", "ó" >>

Digits == << "0", "1", "2", "3", "4", "5", "6", "7", "8", "9" >>

\* Characters in code-point order (only the relative order is used).
Alphabet ==
    << "\t", "\n", " ", "\"", "#", "'", "," >> \o Digits
    \o SubSeq(UpperLetters, 1, 26) \o << "[", "\\", "]", "_" >>
    \o SubSeq(LowerLetters, 1, 26) \o SubSeq(UpperLetters, 27, 29) \o SubSeq(LowerLetters, 27, 29)

Ord(c) == CHOOSE i \in 1..Len(Alphabet) : Alphabet[i] = c

IsSpace(c) == c \in {" ", "\n", "\t"}

\* str.lower() on one character
LowerChar(c) ==
    IF \E i \in 1..Len(UpperLetters) : UpperLetters[i] = c
    THEN LowerLetters[CHOOSE i \in 1..Len(UpperLetters) : UpperLetters[i] = c]
    ELSE c

Lower(s) == [i \in 1..Len(s) |-> LowerChar(s[i])]

RECURSIVE LStrip(_)
LStrip(s) == IF s # << >> /\ IsSpace(Head(s)) THEN LStrip(Tail(s)) ELSE s

RECURSIVE RStrip(_)
RStrip(s) ==
    IF s # << >> /\ IsSpace(s[Len(s)]) THEN RStrip(SubSeq(s, 1, Len(s) - 1)) ELSE s

\* str.strip()
Strip(s) == RStrip(LStrip(s))

\* sep.join(items)
RECURSIVE Join(_, _)
Join(items, sep) ==
    IF items = << >> THEN << >>
    ELSE IF Len(items) = 1 THEN items[1]
    ELSE items[1] \o sep \o Join(Tail(items), sep)

\* s.split(c) for a one-character separator: always at least one piece
RECURSIVE Split(_, _)
Split(s, c) ==
    IF \A i \in 1..Len(s) : s[i] # c THEN << s >>
    ELSE LET k == CHOOSE i \in 1..Len(s) : s[i] = c /\ \A j \in 1..(i - 1) : s[j] # c
         IN  << SubSeq(s, 1, k - 1) >> \o Split(SubSeq(s, k + 1, Len(s)), c)

\* a < b for Python strings (lexicographic by code point)
RECURSIVE StrLess(_, _)
StrLess(a, b) ==
    IF b = << >> THEN FALSE
    ELSE IF a = << >> THEN TRUE
    ELSE IF Head(a) = Head(b) THEN StrLess(Tail(a), Tail(b))
    ELSE Ord(Head(a)) < Ord(Head(b))

\* sorted(S) for a set S of strings
RECURSIVE Sorted(_)
Sorted(S) ==
    IF S = {} THEN << >>
    ELSE LET m == CHOOSE x \in S : \A y \in S \ {x} : StrLess(x, y)
         IN  << m >> \o Sorted(S \ {m})

Range(f) == {f[i] : i \in DOMAIN f}

\* repr(s) of a str: double quotes when s holds ' and no ", else single quotes
RECURSIVE Escape(_, _)
Escape(s, q) ==
    IF s = << >> THEN << >>
    ELSE LET c == Head(s)
             e == IF c = "\\" THEN << "\\", "\\" >>
                  ELSE IF c = "\n" THEN << "\\", "n" >>
                  ELSE IF c = "\t" THEN << "\\", "t" >>
                  ELSE IF c = q THEN << "\\", q >>
                  ELSE << c >>
         IN  e \o Escape(Tail(s), q)

Repr(s) ==
    LET q == IF "'" \in Range(s) /\ "\"" \notin Range(s) THEN "\"" ELSE "'"
    IN  << q >> \o Escape(s, q) \o << q >>

\* str(list): "[" + ", ".join(repr(x)) + "]"
ListStr(items) ==
    << "[" >> \o Join([i \in 1..Len(items) |-> Repr(items[i])], << ",", " " >>) \o << "]" >>

----------------------------------------------------------------------------
(* The persisted profile (logs/<user>/summary.json) and its merge.          *)
(* A JSON value of personal_info / preferences is a string or a flat list  *)
(* of strings; a dict is a function whose domain is its key set.           *)

StrVal(s) == [kind |-> "str", s |-> s, items |-> << >>]
ListVal(items) == [kind |-> "list", s |-> << >>, items |-> items]

EmptyDict == [x \in {} |-> StrVal(<< >>)]

\* the "not provided" sentinel of clean_values
Sentinel == << "n", "o", " ", "s", "e", " ", "p", "r", "o", "p", "o", "r", "c", "i", "o", "n", "ó" >>

\* existing_summary['important_topics'][-10:]
MaxTopics == 10

\* variant: the list is never truncated
LastTopics_unbounded(seq) == seq

LastTopics(seq) ==
    IF Len(seq) <= MaxTopics THEN seq ELSE SubSeq(seq, Len(seq) - MaxTopics + 1, Len(seq))

\* load_user_summary when no file exists
EmptyProfile ==
    [personal_info |-> EmptyDict, preferences |-> EmptyDict,
     important_topics |-> << >>, last_updated |-> 0]

\* normalize_to_list on a string or a flat list
normalize_to_list(v) == IF v.kind = "list" THEN v.items ELSE << v.s >>

RECURSIVE SplitAll(_)
SplitAll(flat) ==
    IF flat = << >> THEN << >>
    ELSE LET parts == Split(Head(flat), ",")
         IN  [i \in 1..Len(parts) |-> Strip(parts[i])] \o SplitAll(Tail(flat))

\* variant: the sentinel and the empty string are kept like any other value
CleanSet_keepall(v) == Range(SplitAll(normalize_to_list(v)))

\* the set behind clean_values: split on commas, strip, drop empties and the sentinel
CleanSet(v) ==
    {x \in Range(SplitAll(normalize_to_list(v))) : x # << >> /\ Lower(x) # Sentinel}

\* clean_values(values)
clean_values(v) == Sorted(CleanSet(v))

\* merged[0] if len(merged) == 1 else merged
StoreMerged(merged) == IF Len(merged) = 1 THEN StrVal(merged[1]) ELSE ListVal(merged)

\* variant: the incoming values replace the stored ones
MergeSection_overwrite(existing, incoming) ==
    LET stored == {k \in DOMAIN incoming : clean_values(incoming[k]) # << >>}
    IN  [k \in (DOMAIN existing) \cup stored |->
            IF k \in stored THEN StoreMerged(clean_values(incoming[k])) ELSE existing[k]]

\* the loop over summary['personal_info'] (or 'preferences') in save_user_summary
MergeSection(existing, incoming) ==
    LET merged(k) ==
            Sorted(Range(clean_values(IF k \in DOMAIN existing THEN existing[k]
                                     ELSE ListVal(<< >>)))
                   \cup Range(clean_values(incoming[k])))
        stored == {k \in DOMAIN incoming : merged(k) # << >>}
    IN  [k \in (DOMAIN existing) \cup stored |->
            IF k \in stored THEN StoreMerged(merged(k)) ELSE existing[k]]

\* for topic in new_topics: append it when it is not in the list
RECURSIVE AppendNewTopics(_, _)
AppendNewTopics(topics, new) ==
    IF new = << >> THEN topics
    ELSE AppendNewTopics(
             IF Head(new) # << >> /\ Head(new) \notin Range(topics)
             THEN Append(topics, Head(new)) ELSE topics,
             Tail(new))

\* save_user_summary(user_id, summary): existing is the file's content, the
\* result is the content written back
save_user_summary(existing, summary, now) ==
    [personal_info |-> MergeSection(existing.personal_info, summary.personal_info),
     preferences |-> MergeSection(existing.preferences, summary.preferences),
     important_topics |->
        LastTopics(AppendNewTopics(existing.important_topics,
                                   clean_values(ListVal(summary.important_topics)))),
     last_updated |-> now]

\* str.split(): the maximal runs of non-whitespace characters
RECURSIVE SplitWords(_)
SplitWords(s) ==
    LET t == LStrip(s)
    IN  IF t = << >> THEN << >>
        ELSE LET ends == {i \in 1..Len(t) : IsSpace(t[i])}
                 k == IF ends = {} THEN Len(t) + 1
                      ELSE CHOOSE i \in ends : \A j \in ends : i <= j
             IN  << SubSeq(t, 1, k - 1) >> \o SplitWords(SubSeq(t, k, Len(t)))

\* the regular-expression classes \w and \d on the characters of Alphabet
DigitChars == Range(Digits)
WordChars == Range(UpperLetters) \cup Range(LowerLetters) \cup Range(Digits) \cup {"_"}
IsDigit(c) == c \in DigitChars
IsWord(c) == c \in WordChars

\* \b before position p of s (p = Len(s) + 1 is the end of the string)
Boundary(s, p) ==
    (p > 1 /\ IsWord(s[p - 1])) # (p <= Len(s) /\ IsWord(s[p]))

\* the literal lit stands at position p of s
LitAt(s, p, lit) ==
    p + Len(lit) - 1 <= Len(s) /\ \A j \in 1..Len(lit) : s[p + j - 1] = lit[j]

\* sub in s
Contains(s, sub) == \E p \in 1..(Len(s) - Len(sub) + 1) : LitAt(s, p, sub)

\* keywordPhrases.txt, as configured: one phrase per line, with a comment
\* line and a blank line
KeywordFile ==
    << << "P", "r", "o", "y", "e", "c", "t", "o" >>,
       << "#", " ", "m", "e", "t", "a" >>,
       << " ", " " >>,
       << " ", "m", "e", " ", "g", "u", "s", "t", "a", " " >> >>

\* load_keyword_phrases (config_loader.py): the stripped, lower-cased lines
\* that are neither empty nor comments
RECURSIVE LoadKeywords(_)
LoadKeywords(lines) ==
    IF lines = << >> THEN << >>
    ELSE LET line == Strip(Head(lines))
         IN  (IF line # << >> /\ Head(line) # "#" THEN << Lower(line) >> ELSE << >>)
             \o LoadKeywords(Tail(lines))

load_keyword_phrases == LoadKeywords(KeywordFile)

\* the patterns of should_update_summary: \b lit \w+ ("word"), \b lit \d+
\* ("digit"), \b lit .+ tail \w+ ("any"), \b lit \d+ tail ("digits")
patterns ==
    << [kind |-> "word", lit |-> << "m", "e", " ", "l", "l", "a", "m", "o", " " >>,
        tail |-> << >>],
       [kind |-> "word", lit |-> << "m", "i", " ", "n", "o", "m", "b", "r", "e", " ", "e", "s", " " >>,
        tail |-> << >>],
       [kind |-> "word", lit |-> << "s", "o", "y", " " >>,
        tail |-> << >>],
       [kind |-> "word", lit |-> << "t", "r", "a", "b", "a", "j", "o", " ", "e", "n", " " >>,
        tail |-> << >>],
       [kind |-> "word", lit |-> << "v", "i", "v", "o", " ", "e", "n", " " >>,
        tail |-> << >>],
       [kind |-> "digit", lit |-> << "t", "e", "n", "g", "o", " " >>,
        tail |-> << >>],
       [kind |-> "any", lit |-> << "m", "i", " " >>,
        tail |-> << " ", "e", "s", " " >>],
       [kind |-> "word", lit |-> << "e", "s", "t", "o", "y", " ", "a", "p", "r", "e", "n", "d", "i", "e", "n", "d", "o", " " >>,
        tail |-> << >>],
       [kind |-> "word", lit |-> << "m", "e", " ", "d", "e", "d", "i", "c", "o", " ", "a", " " >>,
        tail |-> << >>],
       [kind |-> "word", lit |-> << "m", "i", " ", "p", "r", "o", "f", "e", "s", "i", "ó", "n", " ", "e", "s", " " >>,
        tail |-> << >>],
       [kind |-> "digit", lit |-> << "m", "i", " ", "e", "d", "a", "d", " ", "e", "s", " " >>,
        tail |-> << >>],
       [kind |-> "digits", lit |-> << "t", "e", "n", "g", "o", " " >>,
        tail |-> << " ", "a", "ñ", "o", "s" >>] >>

\* re.search(pattern, s): "." matches any character but a newline
re_search(pat, s) ==
    \E p \in 1..Len(s) :
        /\ LitAt(s, p, pat.lit)
        /\ Boundary(s, p)
        /\ LET n == p + Len(pat.lit)
           IN  CASE pat.kind = "word" -> n <= Len(s) /\ IsWord(s[n])
                 [] pat.kind = "digit" -> n <= Len(s) /\ IsDigit(s[n])
                 [] pat.kind = "any" ->
                        \E e \in (n + 1)..Len(s) :
                            /\ \A j \in n..(e - 1) : s[j] # "\n"
                            /\ LitAt(s, e, pat.tail)
                            /\ e + Len(pat.tail) <= Len(s) /\ IsWord(s[e + Len(pat.tail)])
                 [] pat.kind = "digits" ->
                        \E e \in (n + 1)..Len(s) :
                            /\ \A j \in n..(e - 1) : IsDigit(s[j])
                            /\ LitAt(s, e, pat.tail)

\* variant: a prompt of 20 words triggers the update too
should_update_summary_from20(prompt, response) ==
    LET prompt_lower == Lower(prompt)
    IN  \/ \E n \in 1..Len(load_keyword_phrases) : Contains(prompt_lower, load_keyword_phrases[n])
        \/ \E n \in 1..Len(patterns) : re_search(patterns[n], prompt_lower)
        \/ Len(SplitWords(prompt)) >= 20

\* should_update_summary(prompt, response)
should_update_summary(prompt, response) ==
    LET prompt_lower == Lower(prompt)
    IN  \/ \E n \in 1..Len(load_keyword_phrases) : Contains(prompt_lower, load_keyword_phrases[n])
        \/ \E n \in 1..Len(patterns) : re_search(patterns[n], prompt_lower)
        \/ Len(SplitWords(prompt)) > 20

\* ", ".join(value) if isinstance(value, list) else str(value).strip()
Incoming(v) == IF v.kind = "list" THEN Join(v.items, << ",", " " >>) ELSE Strip(v.s)

\* f"{existing}": a string as it is, a list as its Python repr
FormatValue(v) == IF v.kind = "list" THEN ListStr(v.items) ELSE v.s

Truthy(v) == IF v.kind = "list" THEN v.items # << >> ELSE v.s # << >>

\* the loop over update_data['personal_info'] (or 'preferences') in update_user_summary
FoldSection(section, facts) ==
    LET named == {k \in DOMAIN facts : Incoming(facts[k]) # << >>}
    IN  [k \in (DOMAIN section) \cup named |->
            IF k \in named
            THEN IF k \in DOMAIN section /\ Truthy(section[k])
                 THEN StrVal(FormatValue(section[k]) \o << ",", " " >> \o Incoming(facts[k]))
                 ELSE StrVal(Incoming(facts[k]))
            ELSE section[k]]

\* the loop over update_data['important_topics'] in update_user_summary
RECURSIVE FoldTopics(_, _)
FoldTopics(topics, new) ==
    IF new = << >> THEN topics
    ELSE FoldTopics(
             IF Head(new) # << >> /\ Strip(Head(new)) # << >> /\ Head(new) \notin Range(topics)
             THEN Append(topics, Strip(Head(new))) ELSE topics,
             Tail(new))

\* changes_made of update_user_summary
ChangesMade(summary, facts) ==
    \/ \E k \in DOMAIN facts.personal_info : Incoming(facts.personal_info[k]) # << >>
    \/ \E k \in DOMAIN facts.preferences : Incoming(facts.preferences[k]) # << >>
    \/ FoldTopics(summary.important_topics, facts.important_topics) # summary.important_topics

\* update_user_summary from "if update_data:" on: file is the persisted profile
\* (loaded as summary and read again by save_user_summary); the result is the
\* profile persisted afterwards
update_user_summary(file, facts, now) ==
    LET summary ==
            [personal_info |-> FoldSection(file.personal_info, facts.personal_info),
             preferences |-> FoldSection(file.preferences, facts.preferences),
             important_topics |->
                LastTopics(FoldTopics(file.important_topics, facts.important_topics)),
             last_updated |-> file.last_updated]
    IN  IF ChangesMade(file, facts) THEN save_user_summary(file, summary, now) ELSE file

----------------------------------------------------------------------------
(* The turn scheduler: telegram_handler.py and generate_response.          *)

\* users 1 and 2 are on the allow-list, user 3 is not
AllUsers == {1, 2, 3}
WHITELIST == TRUE
USER_WHITELIST == {1, 2}

\* message texts as received, before handle_message strips them: " soy b"
\* strips to "soy b", which should_update_summary takes for a disclosure, and
\* " " strips to the empty string
SoyB == << "s", "o", "y", " ", "b" >>
RawTexts == { << " " >> \o SoyB, << " " >> }

\* one slot per inbound message
Slots == 1..(IF MaxBurst > MaxMsgs THEN MaxBurst ELSE MaxMsgs)

\* facts the extraction may return for a turn (the empty one also stands for
\* a failed extraction)
NoFacts == [personal_info |-> EmptyDict, preferences |-> EmptyDict, important_topics |-> << >>]
TurnFacts == { NoFacts,
               [NoFacts EXCEPT !.personal_info = [k \in {"nombre"} |-> StrVal(<< "A" >>)]] }

VARIABLES
    locks,                  \* locks[u]: the per-user lock flag
    lock_timeouts,          \* lock_timeouts[u]: the latest deadline timer (its slot), 0 if none
    user_timers,            \* user_timers[u]: the latest debounce timer (its slot), 0 if none
    user_pending_messages,  \* user_pending_messages[u]: the buffer (a list object), 0 if absent
    lists,                  \* lists[o]: content of list object o, as message slots
    hpc,                    \* position of the dispatcher thread inside handle_message
    cur,                    \* the message the dispatcher is handling
    nmsgs,                  \* messages received so far
    slot,                   \* per message: its text, timer callback, reply thread, deadline timer
    nturns,                 \* reply threads started so far
    log,                    \* log[u]: the interaction log (logs/<u>/user.json)
    memory,                 \* memory[u]: documents in the semantic memory store
    summaryFile,            \* summaryFile[u]: the persisted profile (logs/<u>/summary.json)
    clock,                  \* calls of update_user_summary so far, used as the timestamp
    reply,                  \* one reply thread followed in full text: its response and chunks
    boot                    \* ensure_required_files: its position and the base directory

vars == << locks, lock_timeouts, user_timers, user_pending_messages, lists, hpc, cur, nmsgs,
           slot, nturns, log, memory, summaryFile, clock, reply, boot >>

sched == << locks, lock_timeouts, user_timers, user_pending_messages, lists, hpc, cur, nmsgs,
            slot, nturns >>
stores == << log, memory, summaryFile, clock, reply, boot >>

EmptySlot ==
    [user |-> 0, text |-> << >>, status |-> "none",
     dpc |-> "none", ref |-> 0, msgs |-> << >>, prompt |-> << >>,
     lateCancel |-> FALSE,
     rpc |-> "none", turn |-> 0, raced |-> FALSE, exc |-> "none",
     gen |-> "none", ncalls |-> 0, stored |-> "none", logs |-> << >>, resp |-> "none",
     stale |-> FALSE,
     notice |-> "none", wpc |-> "none", resetAt |-> 0]

\* the paths of bootstrap.py under the base directory, and the parent of each
Paths == {"logs", "history", "messages", "messages/__init__.py", "history/__init__.py"}

Parent(p) ==
    CASE p = "messages/__init__.py" -> "messages"
      [] p = "history/__init__.py" -> "history"
      [] OTHER -> "."

\* what a path holds: nothing, a directory, or a regular file and its text
Absent == [kind |-> "absent", content |-> ""]
Dir == [kind |-> "dir", content |-> ""]
File(c) == [kind |-> "file", content |-> c]

\* REQUIRED_DIRS and REQUIRED_FILES of bootstrap.py (the dict in its order)
REQUIRED_DIRS == << "logs", "history" >>
REQUIRED_FILES ==
    << [path |-> "messages/__init__.py", content |-> "processing_lock_message = ..."],
       [path |-> "history/__init__.py", content |-> ""] >>

\* the base directory once ensure_required_files has run on an empty one
Booted ==
    [pc |-> "done", k |-> 0, created |-> {}, calls |-> 1,
     fs |-> [q \in Paths |->
                CASE q = "messages/__init__.py" -> File(REQUIRED_FILES[1].content)
                  [] q = "history/__init__.py" -> File(REQUIRED_FILES[2].content)
                  [] OTHER -> Dir]]

\* no reply thread is being followed
NoReply ==
    [pc |-> "idle", user |-> 0, kind |-> "none", ai |-> "none", response |-> << >>, i |-> 0,
     sent |-> << >>, notice |-> "none"]

\* the state when the handlers are registered, given the state of the bootstrap
InitWith(b) ==
    /\ locks = [u \in AllUsers |-> FALSE]
    /\ lock_timeouts = [u \in AllUsers |-> 0]
    /\ user_timers = [u \in AllUsers |-> 0]
    /\ user_pending_messages = [u \in AllUsers |-> 0]
    /\ lists = [o \in Slots |-> << >>]
    /\ hpc = "idle"
    /\ cur = 0
    /\ nmsgs = 0
    /\ slot = [i \in Slots |-> EmptySlot]
    /\ nturns = 0
    /\ log = [u \in AllUsers |-> << >>]
    /\ memory = [u \in AllUsers |-> << >>]
    /\ summaryFile = [u \in AllUsers |-> EmptyProfile]
    /\ clock = 0
    /\ reply = NoReply
    /\ boot = b

\* main.py runs bootstrap.ensure_required_files() (line 45) before anything else
Init == InitWith(Booted)

\* threading.Timer.cancel(): sets the finished flag; it stops a timer that is
\* still waiting and does nothing to one whose callback has begun or ended
CancelDebounce(st) == IF st = "armed" THEN "cancelled" ELSE st

CancelDeadline(st) ==
    IF st = "created" THEN "precancelled"
    ELSE IF st = "armed" THEN "cancelled"
    ELSE st

\* variant: the texts are joined by a space
combined_prompt_space(msgs) == Join([k \in 1..Len(msgs) |-> slot[msgs[k]].text], << " " >>)

\* "\n".join(messages) over the texts of the buffered messages
combined_prompt(msgs) == Join([k \in 1..Len(msgs) |-> slot[msgs[k]].text], << "\n" >>)

\* variant: a message of a locked user is queued like any other
handle_message_nolockcheck(u, raw) ==
    /\ hpc = "idle"
    /\ LET n == nmsgs + 1
           st == IF WHITELIST /\ u \notin USER_WHITELIST THEN "unauthorized" ELSE "accepted"
       IN  /\ nmsgs' = n
           /\ slot' = [slot EXCEPT ![n].user = u, ![n].text = Strip(raw), ![n].status = st,
                                   ![n].notice = IF st = "unauthorized" THEN st ELSE "none"]
           /\ hpc' = IF st = "accepted" THEN "cancel" ELSE "idle"
           /\ cur' = IF st = "accepted" THEN n ELSE 0
    /\ UNCHANGED << locks, lock_timeouts, user_timers, user_pending_messages, lists, nturns >>
    /\ UNCHANGED stores

\* variant: the sender is not tested against the allow-list
handle_message_nowhitelist(u, raw) ==
    /\ hpc = "idle"
    /\ LET n == nmsgs + 1
           st == IF locks[u] THEN "refused" ELSE "accepted"
       IN  /\ nmsgs' = n
           /\ slot' = [slot EXCEPT ![n].user = u, ![n].text = Strip(raw), ![n].status = st,
                                   ![n].notice = IF st = "refused" THEN "wait" ELSE "none"]
           /\ hpc' = IF st = "accepted" THEN "cancel" ELSE "idle"
           /\ cur' = IF st = "accepted" THEN n ELSE 0
    /\ UNCHANGED << locks, lock_timeouts, user_timers, user_pending_messages, lists, nturns >>
    /\ UNCHANGED stores

(* handle_message, lines 101-108: strip, allow-list check (answered with the
   not-authorized notice), lock check (answered with processing_lock_message).
   The dispatcher runs the handler of one update at a time, so there is a
   single handler position hpc; timer callbacks and reply threads run beside
   it. *)
handle_message(u, raw) ==
    /\ hpc = "idle"
    /\ LET n == nmsgs + 1
           st == IF WHITELIST /\ u \notin USER_WHITELIST THEN "unauthorized"
                 ELSE IF locks[u] THEN "refused"
                 ELSE "accepted"
       IN  /\ nmsgs' = n
           /\ slot' = [slot EXCEPT ![n].user = u, ![n].text = Strip(raw), ![n].status = st,
                                   ![n].notice = CASE st = "unauthorized" -> "unauthorized"
                                                   [] st = "refused" -> "wait"
                                                   [] OTHER -> "none"]
           /\ hpc' = IF st = "accepted" THEN "cancel" ELSE "idle"
           /\ cur' = IF st = "accepted" THEN n ELSE 0
    /\ UNCHANGED << locks, lock_timeouts, user_timers, user_pending_messages, lists, nturns >>
    /\ UNCHANGED stores

\* variant: the previous timer is left running
schedule_cancel_skip ==
    /\ hpc = "cancel"
    /\ hpc' = "ensure"
    /\ UNCHANGED << locks, lock_timeouts, user_timers, user_pending_messages, lists, cur,
                    nmsgs, slot, nturns >>
    /\ UNCHANGED stores

(* schedule_debounced_response, lines 57-58: cancel the previous timer *)
schedule_cancel ==
    /\ hpc = "cancel"
    /\ LET u == slot[cur].user
           t == user_timers[u]
       IN  slot' = IF t = 0 THEN slot
                   ELSE [slot EXCEPT ![t].dpc = CancelDebounce(@),
                                     ![t].lateCancel = (@ \/ slot[t].dpc = "read")]
    /\ hpc' = "ensure"
    /\ UNCHANGED << locks, lock_timeouts, user_timers, user_pending_messages, lists, cur,
                    nmsgs, nturns >>
    /\ UNCHANGED stores

(* lines 59-60: create the buffer when the user has none *)
schedule_ensure ==
    /\ hpc = "ensure"
    /\ LET u == slot[cur].user
       IN  IF user_pending_messages[u] = 0
           THEN /\ user_pending_messages' = [user_pending_messages EXCEPT ![u] = cur]
                /\ lists' = [lists EXCEPT ![cur] = << >>]
           ELSE UNCHANGED << user_pending_messages, lists >>
    /\ hpc' = "append"
    /\ UNCHANGED << locks, lock_timeouts, user_timers, cur, nmsgs, slot, nturns >>
    /\ UNCHANGED stores

\* variant: the new timer is created and recorded but never started
schedule_append_nostart ==
    /\ hpc = "append"
    /\ LET u == slot[cur].user
           o == user_pending_messages[u]
       IN  IF o = 0
           THEN /\ slot' = [slot EXCEPT ![cur].status = "lost"]
                /\ UNCHANGED << lists, user_timers >>
           ELSE /\ lists' = [lists EXCEPT ![o] = Append(@, cur)]
                /\ slot' = [slot EXCEPT ![cur].status = "queued"]
                /\ user_timers' = [user_timers EXCEPT ![u] = cur]
    /\ hpc' = "idle"
    /\ cur' = 0
    /\ UNCHANGED << locks, lock_timeouts, user_pending_messages, nmsgs, nturns >>
    /\ UNCHANGED stores

(* lines 61-64: append the message (KeyError when a callback has deleted the
   buffer since line 59), then create, record and start the new timer *)
schedule_append ==
    /\ hpc = "append"
    /\ LET u == slot[cur].user
           o == user_pending_messages[u]
       IN  IF o = 0
           THEN /\ slot' = [slot EXCEPT ![cur].status = "lost"]
                /\ UNCHANGED << lists, user_timers >>
           ELSE /\ lists' = [lists EXCEPT ![o] = Append(@, cur)]
                /\ slot' = [slot EXCEPT ![cur].status = "queued", ![cur].dpc = "armed"]
                /\ user_timers' = [user_timers EXCEPT ![u] = cur]
    /\ hpc' = "idle"
    /\ cur' = 0
    /\ UNCHANGED << locks, lock_timeouts, user_pending_messages, nmsgs, nturns >>
    /\ UNCHANGED stores

(* threading.Timer.run of a debounce timer: the delay has elapsed and the
   finished flag is found clear, so the callback will run *)
debounce_fire(i) ==
    /\ slot[i].dpc = "armed"
    /\ slot' = [slot EXCEPT ![i].dpc = "read"]
    /\ UNCHANGED << locks, lock_timeouts, user_timers, user_pending_messages, lists, hpc, cur,
                    nmsgs, nturns >>
    /\ UNCHANGED stores

(* process_debounced_messages, lines 48-49 *)
debounce_read(i) ==
    /\ slot[i].dpc = "read"
    /\ LET o == user_pending_messages[slot[i].user]
       IN  slot' = IF o = 0 THEN [slot EXCEPT ![i].dpc = "done"]
                   ELSE [slot EXCEPT ![i].dpc = "join", ![i].ref = o]
    /\ UNCHANGED << locks, lock_timeouts, user_timers, user_pending_messages, lists, hpc, cur,
                    nmsgs, nturns >>
    /\ UNCHANGED stores

(* line 50 *)
debounce_join(i) ==
    /\ slot[i].dpc = "join"
    /\ slot' = [slot EXCEPT ![i].dpc = "del",
                            ![i].msgs = lists[slot[i].ref],
                            ![i].prompt = combined_prompt(lists[slot[i].ref])]
    /\ UNCHANGED << locks, lock_timeouts, user_timers, user_pending_messages, lists, hpc, cur,
                    nmsgs, nturns >>
    /\ UNCHANGED stores

(* line 51: del (KeyError ends the callback when the buffer is already gone) *)
debounce_del(i) ==
    /\ slot[i].dpc = "del"
    /\ LET u == slot[i].user
       IN  IF user_pending_messages[u] = 0
           THEN /\ slot' = [slot EXCEPT ![i].dpc = "error"]
                /\ UNCHANGED user_pending_messages
           ELSE /\ slot' = [slot EXCEPT ![i].dpc = "process"]
                /\ user_pending_messages' = [user_pending_messages EXCEPT ![u] = 0]
    /\ UNCHANGED << locks, lock_timeouts, user_timers, lists, hpc, cur, nmsgs, nturns >>
    /\ UNCHANGED stores

\* another reply thread of the same user has passed the lock check of line 70
\* and has not yet set the lock, and the user never had any other turn
Racing(i) ==
    \E j \in Slots \ {i} :
        /\ slot[j].user = slot[i].user
        /\ slot[j].rpc = "lock"
        /\ \A k \in Slots \ {i, j} : slot[k].user = slot[i].user => slot[k].rpc = "none"

(* process_user_message, lines 70-71 and 96: return when locked, else start
   the reply thread *)
process_user_message(i) ==
    /\ slot[i].dpc = "process"
    /\ IF locks[slot[i].user]
       THEN /\ slot' = [slot EXCEPT ![i].dpc = "done"]
            /\ UNCHANGED nturns
       ELSE /\ slot' = [slot EXCEPT ![i].dpc = "done", ![i].rpc = "lock",
                                    ![i].turn = nturns + 1, ![i].raced = Racing(i)]
            /\ nturns' = nturns + 1
    /\ UNCHANGED << locks, lock_timeouts, user_timers, user_pending_messages, lists, hpc, cur,
                    nmsgs >>
    /\ UNCHANGED stores

(* reply(), line 75 *)
reply_lock(i) ==
    /\ slot[i].rpc = "lock"
    /\ locks' = [locks EXCEPT ![slot[i].user] = TRUE]
    /\ slot' = [slot EXCEPT ![i].rpc = "mktimer"]
    /\ UNCHANGED << lock_timeouts, user_timers, user_pending_messages, lists, hpc, cur, nmsgs,
                    nturns >>
    /\ UNCHANGED stores

(* line 76: create the deadline timer and record it as the user's latest *)
reply_mktimer(i) ==
    /\ slot[i].rpc = "mktimer"
    /\ lock_timeouts' = [lock_timeouts EXCEPT ![slot[i].user] = i]
    /\ slot' = [slot EXCEPT ![i].rpc = "start", ![i].wpc = "created"]
    /\ UNCHANGED << locks, user_timers, user_pending_messages, lists, hpc, cur, nmsgs, nturns >>
    /\ UNCHANGED stores

(* line 77: lock_timeouts[user_id].start() starts whichever timer is recorded
   now; Thread.start() raises RuntimeError on a timer already started *)
reply_start(i) ==
    /\ slot[i].rpc = "start"
    /\ LET t == lock_timeouts[slot[i].user]
       IN  IF slot[t].wpc \in {"created", "precancelled"}
           THEN slot' = [slot EXCEPT
                           ![t].wpc = IF @ = "created" THEN "armed" ELSE "cancelled",
                           ![i].rpc = "notify"]
           ELSE slot' = [slot EXCEPT ![i].rpc = "except", ![i].exc = "start"]
    /\ UNCHANGED << locks, lock_timeouts, user_timers, user_pending_messages, lists, hpc, cur,
                    nmsgs, nturns >>
    /\ UNCHANGED stores

(* lines 79-80 up to the backend call of generate_response (ai_engine.py line
   67): the "Pensando..." notice is sent and the backend call is in flight,
   or sending the notice raises *)
reply_notify(i, ok) ==
    /\ slot[i].rpc = "notify"
    /\ slot' = IF ok THEN [slot EXCEPT ![i].rpc = "generating", ![i].gen = "inflight",
                                        ![i].ncalls = @ + 1]
               ELSE [slot EXCEPT ![i].rpc = "except", ![i].exc = "notify"]
    /\ UNCHANGED << locks, lock_timeouts, user_timers, user_pending_messages, lists, hpc, cur,
                    nmsgs, nturns >>
    /\ UNCHANGED stores

(* line 80, generate_response line 61: the notice has been sent and
   get_user_memory raises (get_or_create_collection fails); the call is outside
   the try block of generate_response, so the exception reaches reply() *)
get_user_memory_error(i) ==
    /\ slot[i].rpc = "notify"
    /\ slot' = [slot EXCEPT ![i].rpc = "except", ![i].exc = "memory"]
    /\ UNCHANGED << locks, lock_timeouts, user_timers, user_pending_messages, lists, hpc, cur,
                    nmsgs, nturns >>
    /\ UNCHANGED stores

\* turn i lost its lock to its deadline timer, and a turn of the same user has
\* started since then
Superseded(i) ==
    /\ slot[i].wpc = "reset"
    /\ \E j \in Slots : slot[j].user = slot[i].user /\ slot[j].turn > slot[i].resetAt

(* generate_response, lines 67-74, and log_user_interaction, lines 46-61: the
   backend returns; the interaction is stored in memory (store_in_memory
   catches a failure of the store and returns) and the log file is read *)
generate_return(i, stored) ==
    /\ slot[i].rpc = "generating"
    /\ LET u == slot[i].user
       IN  memory' = IF stored THEN [memory EXCEPT ![u] = Append(@, i)] ELSE memory
    /\ slot' = [slot EXCEPT ![i].rpc = "logging", ![i].gen = "returned", ![i].resp = "response",
                            ![i].stored = IF stored THEN "ok" ELSE "failed",
                            ![i].logs = log[slot[i].user],
                            ![i].stale = Superseded(i)]
    /\ UNCHANGED << locks, lock_timeouts, user_timers, user_pending_messages, lists, hpc, cur,
                    nmsgs, nturns >>
    /\ UNCHANGED << log, summaryFile, clock, reply, boot >>

(* log_user_interaction, lines 62-64, and generate_response, lines 75-76: the
   list read from the log file is written back with the interaction appended
   and, when should_update_summary holds for the prompt, the extracted facts
   are folded into the profile *)
log_user_interaction(i, facts) ==
    /\ slot[i].rpc = "logging"
    /\ LET u == slot[i].user
       IN  /\ log' = [log EXCEPT ![u] = Append(slot[i].logs, [turn |-> slot[i].turn,
                                                              message |-> slot[i].prompt,
                                                              response |-> "response"])]
           /\ summaryFile' = [summaryFile EXCEPT ![u] =
                                 IF should_update_summary(slot[i].prompt, "response")
                                 THEN update_user_summary(@, facts, clock + 1)
                                 ELSE @]
           /\ clock' = clock + 1
    /\ slot' = [slot EXCEPT ![i].rpc = "send", ![i].logs = << >>]
    /\ UNCHANGED << locks, lock_timeouts, user_timers, user_pending_messages, lists, hpc, cur,
                    nmsgs, nturns >>
    /\ UNCHANGED << memory, reply, boot >>

\* variant: a backend call that raises is issued a second time
generate_error_retry(i) ==
    /\ slot[i].rpc = "generating"
    /\ slot' = IF slot[i].ncalls < 2 THEN [slot EXCEPT ![i].ncalls = @ + 1]
               ELSE [slot EXCEPT ![i].rpc = "send", ![i].gen = "raised", ![i].resp = "error_msg"]
    /\ UNCHANGED << locks, lock_timeouts, user_timers, user_pending_messages, lists, hpc, cur,
                    nmsgs, nturns >>
    /\ UNCHANGED stores

\* variant: the error message is logged as the turn's response
generate_error_logged(i) ==
    /\ slot[i].rpc = "generating"
    /\ slot' = [slot EXCEPT ![i].rpc = "send", ![i].gen = "raised", ![i].resp = "error_msg"]
    /\ log' = [log EXCEPT ![slot[i].user] = Append(@, [turn |-> slot[i].turn,
                                                       message |-> slot[i].prompt,
                                                       response |-> "error_msg"])]
    /\ UNCHANGED << locks, lock_timeouts, user_timers, user_pending_messages, lists, hpc, cur,
                    nmsgs, nturns >>
    /\ UNCHANGED << memory, summaryFile, clock, reply, boot >>

(* generate_response, lines 77-81: the backend raises; the error message is
   returned as the response and nothing is stored *)
generate_error(i) ==
    /\ slot[i].rpc = "generating"
    /\ slot' = [slot EXCEPT ![i].rpc = "send", ![i].gen = "raised", ![i].resp = "error_msg"]
    /\ UNCHANGED << locks, lock_timeouts, user_timers, user_pending_messages, lists, hpc, cur,
                    nmsgs, nturns >>
    /\ UNCHANGED stores

(* reply(), lines 81-86: the response is sent in chunks, or sending raises *)
reply_send(i, ok) ==
    /\ slot[i].rpc = "send"
    /\ slot' = IF ok THEN [slot EXCEPT ![i].rpc = "finally", ![i].notice = "response"]
               ELSE [slot EXCEPT ![i].rpc = "except", ![i].exc = "send"]
    /\ UNCHANGED << locks, lock_timeouts, user_timers, user_pending_messages, lists, hpc, cur,
                    nmsgs, nturns >>
    /\ UNCHANGED stores

\* variant: the lock is released at the end of the handler instead of in a
\* finally block, so an exception inside the handler ends the thread
reply_except_nofinally(i, ok) ==
    /\ slot[i].rpc = "except"
    /\ slot' = [slot EXCEPT ![i].rpc = IF ok THEN "finally" ELSE "done",
                            ![i].notice = IF ok THEN "error" ELSE "failed"]
    /\ UNCHANGED << locks, lock_timeouts, user_timers, user_pending_messages, lists, hpc, cur,
                    nmsgs, nturns >>
    /\ UNCHANGED stores

(* lines 87-90: the handler sends the error notice; when that raises too the
   exception leaves the handler, and the finally block runs all the same *)
reply_except(i, ok) ==
    /\ slot[i].rpc = "except"
    /\ slot' = [slot EXCEPT ![i].rpc = "finally",
                            ![i].notice = IF ok THEN "error" ELSE "failed"]
    /\ UNCHANGED << locks, lock_timeouts, user_timers, user_pending_messages, lists, hpc, cur,
                    nmsgs, nturns >>
    /\ UNCHANGED stores

(* lines 92-93: cancel whichever deadline timer is recorded now *)
reply_cancel(i) ==
    /\ slot[i].rpc = "finally"
    /\ LET t == lock_timeouts[slot[i].user]
       IN  slot' = IF t = 0 THEN [slot EXCEPT ![i].rpc = "release"]
                   ELSE [[slot EXCEPT ![t].wpc = CancelDeadline(@)] EXCEPT ![i].rpc = "release"]
    /\ UNCHANGED << locks, lock_timeouts, user_timers, user_pending_messages, lists, hpc, cur,
                    nmsgs, nturns >>
    /\ UNCHANGED stores

\* variant: the thread ends and leaves the lock set
reply_release_keep(i) ==
    /\ slot[i].rpc = "release"
    /\ slot' = [slot EXCEPT ![i].rpc = "done"]
    /\ UNCHANGED << locks, lock_timeouts, user_timers, user_pending_messages, lists, hpc, cur,
                    nmsgs, nturns >>
    /\ UNCHANGED stores

\* variant: one lock flag shared by all users
reply_release_global(i) ==
    /\ slot[i].rpc = "release"
    /\ locks' = [u \in AllUsers |-> FALSE]
    /\ slot' = [slot EXCEPT ![i].rpc = "done"]
    /\ UNCHANGED << lock_timeouts, user_timers, user_pending_messages, lists, hpc, cur, nmsgs,
                    nturns >>
    /\ UNCHANGED stores

(* line 94 *)
reply_release(i) ==
    /\ slot[i].rpc = "release"
    /\ locks' = [locks EXCEPT ![slot[i].user] = FALSE]
    /\ slot' = [slot EXCEPT ![i].rpc = "done"]
    /\ UNCHANGED << lock_timeouts, user_timers, user_pending_messages, lists, hpc, cur, nmsgs,
                    nturns >>
    /\ UNCHANGED stores

\* variant: the deadline timer logs the timeout and leaves the lock set
reset_lock_noclear(i) ==
    /\ slot[i].wpc = "armed"
    /\ slot' = [slot EXCEPT ![i].wpc = "expired"]
    /\ UNCHANGED << locks, lock_timeouts, user_timers, user_pending_messages, lists, hpc, cur,
                    nmsgs, nturns >>
    /\ UNCHANGED stores

(* reset_lock, run by a deadline timer whose delay elapsed uncancelled *)
reset_lock(i) ==
    /\ slot[i].wpc = "armed"
    /\ IF locks[slot[i].user]
       THEN /\ locks' = [locks EXCEPT ![slot[i].user] = FALSE]
            /\ slot' = [slot EXCEPT ![i].wpc = "reset", ![i].resetAt = nturns]
       ELSE /\ UNCHANGED locks
            /\ slot' = [slot EXCEPT ![i].wpc = "expired"]
    /\ UNCHANGED << lock_timeouts, user_timers, user_pending_messages, lists, hpc, cur, nmsgs,
                    nturns >>
    /\ UNCHANGED stores

\* the allow-listed users are interchangeable (every dict is keyed by user and
\* no step compares user ids), so the first message is taken to come from user
\* 1 or from the user outside the allow-list
FirstSender(u) == nmsgs = 0 => u # 2

\* the threads of the program, with the senders, texts and extracted facts
\* drawn from the given sets
NextOver(users, texts, factsets) ==
    \/ \E u \in users, raw \in texts :
           nmsgs < MaxMsgs /\ FirstSender(u) /\ handle_message(u, raw)
    \/ schedule_cancel
    \/ schedule_ensure
    \/ schedule_append
    \/ \E i \in Slots : debounce_fire(i)
    \/ \E i \in Slots : debounce_read(i)
    \/ \E i \in Slots : debounce_join(i)
    \/ \E i \in Slots : debounce_del(i)
    \/ \E i \in Slots : process_user_message(i)
    \/ \E i \in Slots : reply_lock(i)
    \/ \E i \in Slots : reply_mktimer(i)
    \/ \E i \in Slots : reply_start(i)
    \/ \E i \in Slots, ok \in BOOLEAN : reply_notify(i, ok)
    \/ \E i \in Slots : get_user_memory_error(i)
    \/ \E i \in Slots, stored \in BOOLEAN : generate_return(i, stored)
    \/ \E i \in Slots, facts \in factsets : log_user_interaction(i, facts)
    \/ \E i \in Slots : generate_error(i)
    \/ \E i \in Slots, ok \in BOOLEAN : reply_send(i, ok)
    \/ \E i \in Slots, ok \in BOOLEAN : reply_except(i, ok)
    \/ \E i \in Slots : reply_cancel(i)
    \/ \E i \in Slots : reply_release(i)
    \/ \E i \in Slots : reset_lock(i)

Next == NextOver(AllUsers, RawTexts, TurnFacts)

Spec == Init /\ [][Next]_vars

\* Scheduling: a started reply thread is run (its steps that touch only the
\* lock and the timers are eventually taken) and a deadline timer that stays
\* armed fires. Nothing forces the backend or a Telegram call to return, a
\* user to send a message or a debounce timer to fire.
Fairness ==
    \A i \in Slots :
        /\ WF_vars(reply_lock(i))
        /\ WF_vars(reply_mktimer(i))
        /\ WF_vars(reply_start(i))
        /\ WF_vars(reply_cancel(i))
        /\ WF_vars(reply_release(i))
        /\ WF_vars(reset_lock(i))

\* Liveness is checked on the messages of one allow-listed user (and of the
\* user outside the allow-list): every variable of the scheduler is keyed by
\* user and no step reads the text or the facts.
LiveNext == NextOver({1, 3}, { << " " >> \o SoyB }, { NoFacts })

SpecLive == Init /\ [][LiveNext]_vars /\ Fairness

\* A burst: MaxBurst messages of one allow-listed user, each the text " soy b",
\* in a run where no Telegram call, memory call or backend call raises, no
\* fact is extracted and no turn lasts until its deadline
\* (LOCK_TIMEOUT_SECONDS).
BurstNext ==
    \/ \E raw \in { << " " >> \o SoyB } : nmsgs < MaxBurst /\ handle_message(1, raw)
    \/ schedule_cancel
    \/ schedule_ensure
    \/ schedule_append
    \/ \E i \in Slots : debounce_fire(i)
    \/ \E i \in Slots : debounce_read(i)
    \/ \E i \in Slots : debounce_join(i)
    \/ \E i \in Slots : debounce_del(i)
    \/ \E i \in Slots : process_user_message(i)
    \/ \E i \in Slots : reply_lock(i)
    \/ \E i \in Slots : reply_mktimer(i)
    \/ \E i \in Slots : reply_start(i)
    \/ \E i \in Slots : reply_notify(i, TRUE)
    \/ \E i \in Slots : generate_return(i, TRUE)
    \/ \E i \in Slots : log_user_interaction(i, NoFacts)
    \/ \E i \in Slots : reply_send(i, TRUE)
    \/ \E i \in Slots : reply_except(i, TRUE)
    \/ \E i \in Slots : reply_cancel(i)
    \/ \E i \in Slots : reply_release(i)

SpecBurst == Init /\ [][BurstNext]_vars

----------------------------------------------------------------------------
(* The profile merge on its own: update_user_summary applied to facts drawn *)
(* from MergeInputs, on the persisted profiles of the allow-listed users.    *)

Fact(section, key, v) ==
    IF section = "personal_info" THEN [NoFacts EXCEPT !.personal_info = [k \in {key} |-> v]]
    ELSE [NoFacts EXCEPT !.preferences = [k \in {key} |-> v]]

Topics(ts) == [NoFacts EXCEPT !.important_topics = ts]

\* "No se proporcionó", as the extraction writes it
CapSentinel == << "N" >> \o Tail(Sentinel)

MergeInputs ==
    { Fact("preferences", "le_gusta", StrVal(<< "C", "a", "f", "é", ",", " ", "t", "é" >>)),
      Fact("preferences", "le_gusta", StrVal(<< "c", "a", "f", "é" >>)),
      Fact("personal_info", "nombre", StrVal(<< "A", "n", "a" >>)),
      Fact("personal_info", "nombre", StrVal(<< " ", "A", "n", "a", " " >>)),
      Fact("personal_info", "nombre", StrVal(CapSentinel)),
      Fact("personal_info", "nombre", StrVal(<< " ", " " >>)),
      Fact("personal_info", "trabajo", ListVal(<< << "b" >>, << "a" >> >>)),
      Fact("personal_info", "ciudad", StrVal(<< "b", ",", ",", " " >> \o CapSentinel)),
      Topics(<< << "a" >>, << "b" >>, << "c" >>, << "d" >>, << "e" >>, << "f" >> >>),
      Topics(<< << "g" >>, << "h" >>, << "i" >>, << "j" >>, << "k" >>, << "l" >> >>),
      Topics(<< << " ", "a" >>, << "a" >>, << "m", ",", " ", "a" >> >>),
      Topics(<< << "p" >>, << "o" >> >>) }

merge_step(u, facts) ==
    /\ clock < MaxMerges
    /\ summaryFile' = [summaryFile EXCEPT ![u] = update_user_summary(@, facts, clock + 1)]
    /\ clock' = clock + 1
    /\ UNCHANGED << sched, log, memory, reply, boot >>

MergeNext == \E u \in USER_WHITELIST, facts \in MergeInputs : merge_step(u, facts)

SpecMerge == Init /\ [][MergeNext]_vars

----------------------------------------------------------------------------
(* The decision to update the profile: generate_response logs the turn and  *)
(* calls update_user_summary, which returns at once unless                  *)
(* should_update_summary(prompt, response) holds.                           *)

\* number of turns explored by SpecUpdate
MaxUpdates == 2

\* n words "x" with one separator after each; sep is a sequence of separators
\* used in turn
RECURSIVE Words(_, _)
Words(n, sep) ==
    IF n = 0 THEN << >> ELSE Words(n - 1, sep) \o << "x" >> \o sep[((n - 1) % Len(sep)) + 1]

\* separators of str.split(): runs of spaces, newlines and tabs
Blanks == << << " " >>, << " ", " " >>, << "\n" >>, << "\t", " " >> >>

Prompts ==
    { << >>,
      << "h", "o", "l", "a" >>,
      << "m", "i", " ", "P", "R", "O", "Y", "E", "C", "T", "O", " ", "n", "u", "e", "v", "o" >>,
      << "M", "E", " ", "G", "U", "S", "T", "A", " ", "l", "e", "e", "r" >>,
      << "#", " ", "m", "e", "t", "a" >>,
      << "M", "e", " ", "l", "l", "a", "m", "o", " ", "A", "n", "a" >>,
      << "m", "e", " ", "l", "l", "a", "m", "o" >>,
      << "s", "o", "y", " ", "a", "n", "a" >>,
      << "m", "i", "s", "o", "y", " ", "a", "n", "a" >>,
      << "t", "e", "n", "g", "o", " ", "3", "0" >>,
      << "t", "e", "n", "g", "o", " ", "f", "r", "i", "o" >>,
      << "m", "i", " ", "g", "a", "t", "o", " ", "e", "s", " ", "n", "e", "g", "r", "o" >>,
      << "m", "i", " ", "\n", "g", "a", "t", "o", " ", "e", "s", " ", "n", "e", "g", "r", "o" >>,
      << "m", "i", " ", "g", "a", "t", "o", "\n", "e", "s", " ", "n", "e", "g", "r", "o" >>,
      << "t", "r", "a", "b", "a", "j", "o", " ", "e", "n", " ", "c", "a", "s", "a" >>,
      << "v", "i", "v", "o", " ", "e", "n", " ", "l", "i", "m", "a" >>,
      << "e", "s", "t", "o", "y", " ", "a", "p", "r", "e", "n", "d", "i", "e", "n", "d", "o", " ", "t", "l", "a" >>,
      << "m", "e", " ", "d", "e", "d", "i", "c", "o", " ", "a", " ", "p", "e", "s", "c", "a", "r" >>,
      << "m", "i", " ", "p", "r", "o", "f", "e", "s", "i", "ó", "n", " ", "e", "s", " ", "j", "u", "e", "z" >>,
      << "m", "i", " ", "e", "d", "a", "d", " ", "e", "s", " ", "3", "0" >>,
      << "t", "e", "n", "g", "o", " ", "3", " ", "a", "ñ", "o", "s" >>,
      Strip(Words(20, << << " " >> >>)),
      Strip(Words(21, << << " " >> >>)),
      << " " >> \o Words(20, Blanks),
      << "\n" >> \o Words(21, Blanks) }

\* responses of the backend; the second holds a configured keyword
Responses == { << "o", "k" >>, << "p", "r", "o", "y", "e", "c", "t", "o" >> }

\* facts the extraction returns when it is asked: never empty, so that the
\* profile is rewritten whenever the update is triggered
UpdateFacts == TurnFacts \ { NoFacts }

(* generate_response, lines 74-75: log_user_interaction, then
   update_user_summary (lines 151-153 and, when triggered, the merge) *)
summary_update(u, prompt, response, facts) ==
    /\ clock < MaxUpdates
    /\ log' = [log EXCEPT ![u] = Append(@, [turn |-> 0, message |-> prompt,
                                            response |-> response])]
    /\ summaryFile' = [summaryFile EXCEPT ![u] =
                          IF should_update_summary(prompt, response)
                          THEN update_user_summary(@, facts, clock + 1)
                          ELSE @]
    /\ clock' = clock + 1
    /\ UNCHANGED << sched, memory, reply, boot >>

UpdateNext ==
    \E u \in USER_WHITELIST, prompt \in Prompts, response \in Responses, facts \in UpdateFacts :
        summary_update(u, prompt, response, facts)

SpecUpdate == Init /\ [][UpdateNext]_vars

----------------------------------------------------------------------------
(* One reply thread in full text: generate_response with the extraction of *)
(* update_user_summary, and the chunk loop of reply().                     *)

\* number of turns explored by SpecTurn
MaxTurns == 2

MAX_RESPONSE_LENGTH == 4000
MAX_MESSAGE_LENGTH == 4096

\* "\n\n[Response truncated due to length limit]"
TruncationNote ==
    << "\n", "\n", "[", "R", "e", "s", "p", "o", "n", "s", "e", " ", "t", "r", "u", "n", "c", "a", "t", "e", "d", " ", "d", "u", "e", " ", "t", "o", " ", "l", "e", "n", "g", "t", "h", " ", "l", "i", "m", "i", "t", "]" >>

\* "Ha ocurrido un error durante el procesamiento: "
ErrorPrefix ==
    << "H", "a", " ", "o", "c", "u", "r", "r", "i", "d", "o", " ", "u", "n", " ", "e", "r", "r", "o", "r", " ", "d", "u", "r", "a", "n", "t", "e", " ", "e", "l", " ", "p", "r", "o", "c", "e", "s", "a", "m", "i", "e", "n", "t", "o", ":", " " >>

\* a text of n characters, the digits in turn
Filler(n) == [k \in 1..n |-> Digits[(k % 10) + 1]]

\* outcomes of the backend call of line 67: the final response taken from the
\* model's output, or an exception and its message
Generated ==
    { [kind |-> "text", text |-> << >>],
      [kind |-> "text", text |-> << "o", "k" >>],
      [kind |-> "text", text |-> Filler(MAX_RESPONSE_LENGTH)],
      [kind |-> "text", text |-> Filler(MAX_RESPONSE_LENGTH + 1)],
      [kind |-> "raise", text |-> Filler(MAX_MESSAGE_LENGTH - Len(ErrorPrefix))],
      [kind |-> "raise", text |-> Filler(MAX_MESSAGE_LENGTH - Len(ErrorPrefix) + 1)],
      [kind |-> "raise", text |-> Filler(2 * MAX_MESSAGE_LENGTH - Len(ErrorPrefix) + 1)] }

\* response[:MAX_RESPONSE_LENGTH] + the note, when the response is too long
Truncated(text) ==
    IF Len(text) > MAX_RESPONSE_LENGTH
    THEN SubSeq(text, 1, MAX_RESPONSE_LENGTH) \o TruncationNote
    ELSE text

\* the class [a-zA-Z...\s] of the fallback patterns, on the characters of Alphabet
NameChars == Range(UpperLetters) \cup Range(LowerLetters) \cup {" ", "\n", "\t"}
Spaces == {" ", "\n", "\t"}
Letters == Range(UpperLetters) \cup Range(LowerLetters)

\* the first position from g on that holds no character of S (Len(s) + 1 when
\* there is none)
RunEnd(s, g, S) ==
    CHOOSE e \in g..(Len(s) + 1) :
        /\ \A j \in g..(e - 1) : s[j] \in S
        /\ e = Len(s) + 1 \/ s[e] \notin S

\* lit\s+([...]+) tried at position p of s: where the group begins, 0 when
\* there is no match; \s+ takes all the blanks and gives the last one back to
\* the group when no letter follows
GroupStart(s, p, lit) ==
    LET b == p + Len(lit)
        e == RunEnd(s, b, Spaces)
    IN  IF ~LitAt(s, p, lit) \/ b > Len(s) \/ s[b] \notin Spaces THEN 0
        ELSE IF e <= Len(s) /\ s[e] \in NameChars THEN e
        ELSE IF e - b >= 2 THEN e - 1
        ELSE 0

\* re.search(r'(?:l1|l2|l3)\s+([...]+)', s): the leftmost match and its group
fallback_search(lits, s) ==
    LET hits == {p \in 1..Len(s) : \E n \in 1..Len(lits) : GroupStart(s, p, lits[n]) # 0}
    IN  IF hits = {} THEN [found |-> FALSE, group |-> << >>]
        ELSE LET p == CHOOSE x \in hits : \A y \in hits : x <= y
                 n == CHOOSE m \in 1..Len(lits) :
                          /\ GroupStart(s, p, lits[m]) # 0
                          /\ \A k \in 1..(m - 1) : GroupStart(s, p, lits[k]) = 0
                 g == GroupStart(s, p, lits[n])
             IN  [found |-> TRUE, group |-> SubSeq(s, g, RunEnd(s, g, NameChars) - 1)]

\* str.upper() on one character
UpperChar(c) ==
    IF \E i \in 1..Len(LowerLetters) : LowerLetters[i] = c
    THEN UpperLetters[CHOOSE i \in 1..Len(LowerLetters) : LowerLetters[i] = c]
    ELSE c

\* str.title()
Title(s) ==
    [k \in 1..Len(s) |->
        IF k > 1 /\ s[k - 1] \in Letters THEN LowerChar(s[k]) ELSE UpperChar(s[k])]

\* the literals of the three fallback patterns, and 'nombre'
NamePhrases ==
    << << "m", "i", " ", "n", "o", "m", "b", "r", "e", " ", "e", "s" >>,
       << "m", "e", " ", "l", "l", "a", "m", "o" >>,
       << "s", "o", "y" >> >>
WorkPhrases ==
    << << "t", "r", "a", "b", "a", "j", "o", " ", "e", "n" >>,
       << "s", "o", "y" >>,
       << "m", "i", " ", "t", "r", "a", "b", "a", "j", "o", " ", "e", "s" >> >>
LikePhrases ==
    << << "m", "e", " ", "g", "u", "s", "t", "a" >>,
       << "p", "r", "e", "f", "i", "e", "r", "o" >>,
       << "a", "m", "o" >> >>
Nombre == << "n", "o", "m", "b", "r", "e" >>

\* update_user_summary, lines 191-205: the facts taken from the prompt when
\* the extraction returned no JSON object
manual_extraction(prompt) ==
    LET low == Lower(prompt)
        name_match == fallback_search(NamePhrases, low)
        work_match == fallback_search(WorkPhrases, low)
        like_match == fallback_search(LikePhrases, low)
        work == work_match.found /\ ~Contains(Lower(work_match.group), Nombre)
        info == (IF name_match.found THEN {"nombre"} ELSE {})
                \cup (IF work THEN {"trabajo"} ELSE {})
    IN  [personal_info |->
            [k \in info |-> IF k = "nombre" THEN StrVal(Title(Strip(name_match.group)))
                            ELSE StrVal(Strip(work_match.group))],
         preferences |->
            [k \in (IF like_match.found THEN {"le_gusta"} ELSE {}) |->
                StrVal(Strip(like_match.group))],
         important_topics |-> << >>]

\* outcomes of the extraction call of line 174: an exception, a text with no
\* JSON object that parses, or a text whose JSON object holds the facts
Extractions ==
    { [kind |-> "raise", facts |-> NoFacts],
      [kind |-> "nojson", facts |-> NoFacts],
      [kind |-> "json", facts |-> Fact("personal_info", "nombre", StrVal(<< "A" >>))] }

\* variant: the profile is saved whenever an update is due, new facts or not
update_summary_stamp(file, prompt, response, ai, now) ==
    IF ~should_update_summary(prompt, response) THEN file
    ELSE [update_user_summary(file,
                              IF ai.kind = "json" THEN ai.facts ELSE manual_extraction(prompt),
                              now)
             EXCEPT !.last_updated = now]

\* variant: the extraction is run on every turn
update_summary_nofilter(file, prompt, response, ai, now) ==
    IF ai.kind = "raise" THEN file
    ELSE update_user_summary(file,
                             IF ai.kind = "json" THEN ai.facts ELSE manual_extraction(prompt),
                             now)

\* update_user_summary(user_id, prompt, response) as a whole: file is the
\* persisted profile and the result is the profile persisted afterwards
update_summary(file, prompt, response, ai, now) ==
    IF ~should_update_summary(prompt, response) \/ ai.kind = "raise" THEN file
    ELSE update_user_summary(file,
                             IF ai.kind = "json" THEN ai.facts ELSE manual_extraction(prompt),
                             now)

\* prompts of the turns: no update due, with nothing and with a liking for
\* the fallback to find; due with nothing for the fallback to find; due with
\* a name, a name and a liking, a liking
TurnPrompts ==
    { << "h", "o", "l", "a" >>,
      << "a", "m", "o", " ", "l", "e", "e", "r" >>,
      << "t", "e", "n", "g", "o", " ", "3", "0" >>,
      << "s", "o", "y", " ", "a", "n", "a" >>,
      << "M", "e", " ", "l", "l", "a", "m", "o", " ", "A", "n", "a" >>,
      << "m", "e", " ", "g", "u", "s", "t", "a", " ", "l", "e", "e", "r" >> }

\* variant: each slice is one character longer
chunk_onemore(response, i) ==
    SubSeq(response, i + 1,
           IF i + MAX_MESSAGE_LENGTH + 1 < Len(response) THEN i + MAX_MESSAGE_LENGTH + 1
           ELSE Len(response))

\* response[i:i+MAX_MESSAGE_LENGTH]
chunk(response, i) ==
    SubSeq(response, i + 1,
           IF i + MAX_MESSAGE_LENGTH < Len(response) THEN i + MAX_MESSAGE_LENGTH
           ELSE Len(response))

(* reply(), line 80: generate_response(user_id, prompt) from the backend call
   on (ai_engine.py lines 67-81), with update_user_summary as a whole *)
turn_generate(u, prompt, out, ai) ==
    /\ reply.pc \in {"idle", "sent", "failed"}
    /\ clock < MaxTurns
    /\ IF out.kind = "text"
       THEN LET text == Truncated(out.text)
            IN  /\ memory' = [memory EXCEPT ![u] = Append(@, 0)]
                /\ log' = [log EXCEPT ![u] = Append(@, [turn |-> 0, message |-> prompt,
                                                        response |-> text])]
                /\ summaryFile' = [summaryFile EXCEPT ![u] =
                                      update_summary(@, prompt, text, ai, clock + 1)]
                /\ reply' = [NoReply EXCEPT !.pc = "send", !.user = u, !.kind = "response",
                                            !.ai = IF should_update_summary(prompt, text)
                                                   THEN ai.kind ELSE "none",
                                            !.response = text]
       ELSE /\ reply' = [NoReply EXCEPT !.pc = "send", !.user = u, !.kind = "error_msg",
                                        !.response = ErrorPrefix \o out.text]
            /\ UNCHANGED << log, memory, summaryFile >>
    /\ clock' = clock + 1
    /\ UNCHANGED << sched, boot >>

(* lines 82-84: one pass of the loop; reply_text sends the chunk or raises *)
send_chunk(ok) ==
    /\ reply.pc = "send"
    /\ reply.i < Len(reply.response)
    /\ reply' = IF ok THEN [reply EXCEPT !.sent = Append(@, chunk(reply.response, reply.i)),
                                         !.i = @ + MAX_MESSAGE_LENGTH]
                ELSE [reply EXCEPT !.pc = "except"]
    /\ UNCHANGED << sched, log, memory, summaryFile, clock, boot >>

(* lines 82, 85-86 and 91-94: the range is exhausted and the thread ends *)
send_end ==
    /\ reply.pc = "send"
    /\ reply.i >= Len(reply.response)
    /\ reply' = [reply EXCEPT !.pc = "sent"]
    /\ UNCHANGED << sched, log, memory, summaryFile, clock, boot >>

(* lines 87-94: the handler sends the error notice, or that raises too *)
send_error(ok) ==
    /\ reply.pc = "except"
    /\ reply' = [reply EXCEPT !.pc = "failed", !.notice = IF ok THEN "error" ELSE "failed"]
    /\ UNCHANGED << sched, log, memory, summaryFile, clock, boot >>

TurnNext ==
    \/ \E u \in {1}, prompt \in TurnPrompts, out \in Generated, ai \in Extractions :
           turn_generate(u, prompt, out, ai)
    \/ \E ok \in BOOLEAN : send_chunk(ok)
    \/ send_end
    \/ \E ok \in BOOLEAN : send_error(ok)

SpecTurn == Init /\ [][TurnNext]_vars

----------------------------------------------------------------------------
(* bootstrap.ensure_required_files(base), statement by statement, started  *)
(* on a base directory that holds any part of what it requires.            *)

\* texts a file found in the base directory may hold
Contents == {"", REQUIRED_FILES[1].content, "other"}

\* the base directories the function is started on: each required directory
\* is there or not, each required file is there (with some text, inside its
\* directory) or not
BaseDirs ==
    {f \in [Paths -> {Absent, Dir} \cup {File(c) : c \in Contents}] :
        /\ \A q \in {"logs", "history", "messages"} : f[q].kind # "file"
        /\ \A n \in 1..Len(REQUIRED_FILES) :
              LET q == REQUIRED_FILES[n].path
              IN  f[q].kind # "dir" /\ (f[q].kind = "file" => f[Parent(q)].kind = "dir")}

InitBoot ==
    \E f \in BaseDirs : InitWith([pc |-> "dirs", k |-> 1, created |-> {}, calls |-> 1, fs |-> f])

\* variant: every path is taken to be missing
Exists_never(fs, q) == FALSE

\* Path.exists()
Exists(fs, q) == q = "." \/ fs[q].kind # "absent"

IsDir(fs, q) == q = "." \/ fs[q].kind = "dir"

\* variant: mkdir() without parents=True, which creates nothing here
mkdir_nothing(fs, q) == fs

\* Path.mkdir(parents=True, exist_ok=True) on a path whose parent is the base
\* directory or is q itself
mkdir(fs, q) == IF q # "." /\ fs[q].kind = "absent" THEN [fs EXCEPT ![q] = Dir] ELSE fs

\* the position after entry k of the loop at pc
NextEntry(pc, k) ==
    IF pc = "dirs"
    THEN IF k < Len(REQUIRED_DIRS) THEN [pc |-> "dirs", k |-> k + 1] ELSE [pc |-> "files", k |-> 1]
    ELSE IF k < Len(REQUIRED_FILES) THEN [pc |-> "files", k |-> k + 1] ELSE [pc |-> "done", k |-> 0]

(* lines 20-22: the next directory and the test dir_path.exists() *)
boot_dir_exists ==
    /\ boot.pc = "dirs"
    /\ boot' = IF Exists(boot.fs, REQUIRED_DIRS[boot.k])
               THEN [boot EXCEPT !.pc = NextEntry("dirs", boot.k).pc,
                                 !.k = NextEntry("dirs", boot.k).k]
               ELSE [boot EXCEPT !.pc = "mkdir"]
    /\ UNCHANGED << sched, log, memory, summaryFile, clock, reply >>

(* lines 23-24: dir_path.mkdir(parents=True, exist_ok=True) *)
boot_dir_mkdir ==
    /\ boot.pc = "mkdir"
    /\ boot' = [boot EXCEPT !.fs = mkdir(@, REQUIRED_DIRS[boot.k]),
                            !.created = @ \cup {REQUIRED_DIRS[boot.k]},
                            !.pc = NextEntry("dirs", boot.k).pc,
                            !.k = NextEntry("dirs", boot.k).k]
    /\ UNCHANGED << sched, log, memory, summaryFile, clock, reply >>

(* lines 26-28: the next file and the test path.exists() *)
boot_file_exists ==
    /\ boot.pc = "files"
    /\ boot' = IF Exists(boot.fs, REQUIRED_FILES[boot.k].path)
               THEN [boot EXCEPT !.pc = NextEntry("files", boot.k).pc,
                                 !.k = NextEntry("files", boot.k).k]
               ELSE [boot EXCEPT !.pc = "parent"]
    /\ UNCHANGED << sched, log, memory, summaryFile, clock, reply >>

(* line 29: path.parent.mkdir(parents=True, exist_ok=True), which raises
   FileExistsError when the parent is a regular file *)
boot_parent_mkdir ==
    /\ boot.pc = "parent"
    /\ LET q == Parent(REQUIRED_FILES[boot.k].path)
       IN  boot' = IF Exists(boot.fs, q) /\ ~IsDir(boot.fs, q)
                   THEN [boot EXCEPT !.pc = "error"]
                   ELSE [boot EXCEPT !.fs = mkdir(@, q), !.pc = "write"]
    /\ UNCHANGED << sched, log, memory, summaryFile, clock, reply >>

(* lines 30-31: path.write_text(content), which raises FileNotFoundError when
   the parent directory is missing *)
boot_write_text ==
    /\ boot.pc = "write"
    /\ LET e == REQUIRED_FILES[boot.k]
       IN  boot' = IF IsDir(boot.fs, Parent(e.path))
                   THEN [boot EXCEPT !.fs = [@ EXCEPT ![e.path] = File(e.content)],
                                     !.created = @ \cup {e.path},
                                     !.pc = NextEntry("files", boot.k).pc,
                                     !.k = NextEntry("files", boot.k).k]
                   ELSE [boot EXCEPT !.pc = "error"]
    /\ UNCHANGED << sched, log, memory, summaryFile, clock, reply >>

ensure_required_files ==
    \/ boot_dir_exists
    \/ boot_dir_mkdir
    \/ boot_file_exists
    \/ boot_parent_mkdir
    \/ boot_write_text

SpecBoot == InitBoot /\ [][ensure_required_files]_vars

\* number of calls of ensure_required_files explored by SpecBootTwice
MaxCalls == 2

\* any base directory: each of logs, history and messages is missing, a
\* directory or a regular file, and each required file is missing, a regular
\* file with some text or a directory, inside a directory
AnyBaseDirs ==
    {f \in [Paths -> {Absent, Dir} \cup {File(c) : c \in Contents}] :
        /\ \A q \in {"logs", "history", "messages"} :
              f[q].kind = "file" => f[q].content = "other"
        /\ \A n \in 1..Len(REQUIRED_FILES) :
              LET q == REQUIRED_FILES[n].path
              IN  f[q].kind # "absent" => f[Parent(q)].kind = "dir"}

InitBootAny ==
    \E f \in AnyBaseDirs :
        InitWith([pc |-> "dirs", k |-> 1, created |-> {}, calls |-> 1, fs |-> f])

(* ensure_required_files is called again after it has returned or raised *)
boot_again ==
    /\ boot.pc \in {"done", "error"}
    /\ boot.calls < MaxCalls
    /\ boot' = [boot EXCEPT !.pc = "dirs", !.k = 1, !.calls = @ + 1]
    /\ UNCHANGED << sched, log, memory, summaryFile, clock, reply >>

BootTwiceNext ==
    \/ ensure_required_files
    \/ boot_again

SpecBootTwice == InitBootAny /\ [][BootTwiceNext]_vars

----------------------------------------------------------------------------
(* Properties.                                                             *)

SlotsOf(u) == {i \in Slots : slot[i].user = u}

\* reply threads of u whose backend call is in flight
InFlight(u) == {i \in SlotsOf(u) : slot[i].rpc = "generating"}

\* the callback of i has deleted the buffer it read (it is past line 51)
Flushed(i) == slot[i].dpc = "process" \/ (slot[i].dpc = "done" /\ slot[i].ref # 0)

\* the callback of i was turned away at lines 70-71 because the lock was held
SkippedLocked(i) == slot[i].dpc = "done" /\ slot[i].ref # 0 /\ slot[i].rpc = "none"

\* message m is in the user's pending buffer
Buffered(m) ==
    LET o == user_pending_messages[slot[m].user]
    IN  o # 0 /\ m \in Range(lists[o])

\* message m is part of a prompt for which a reply thread was started
Delivered(m) == \E j \in Slots : slot[j].rpc # "none" /\ m \in Range(slot[j].msgs)

\* messages of u that handle_message let through, and the latest of them
Accepted(u) == {i \in SlotsOf(u) : slot[i].status \in {"accepted", "queued", "lost"}}
Latest(u) == CHOOSE i \in Accepted(u) : \A j \in Accepted(u) : j <= i

\* every message u ever sent was queued and only the timer of the latest has
\* fired: all of them arrived before the user's debounce timer fired
Burst(u) ==
    /\ Accepted(u) # {}
    /\ \A i \in SlotsOf(u) : slot[i].status = "queued"
    /\ \A i \in Accepted(u) \ {Latest(u)} : slot[i].dpc = "cancelled"
    /\ slot[Latest(u)].dpc \notin {"armed", "cancelled"}

\* the texts of the messages of u, in the order received
RECURSIVE TextsFrom(_, _)
TextsFrom(u, i) ==
    IF i \notin Slots THEN << >>
    ELSE (IF slot[i].user = u THEN << slot[i].text >> ELSE << >>) \o TextsFrom(u, i + 1)

\* the reply thread of i has left the try body or its handler
Ended(i) == slot[i].rpc \in {"finally", "release", "done"}

\* the three merged fields of a profile
Merged(p) ==
    [personal_info |-> p.personal_info, preferences |-> p.preferences,
     important_topics |-> p.important_topics]

\* C1: for every user, at no time are two generation calls for that user in
\* flight, under every interleaving of arrivals, timer firings, turn starts,
\* completions and watchdog resets.
C1_OneGenerationInFlight == \A u \in AllUsers : Cardinality(InFlight(u)) <= 1

C3_LockedFlushKeepsMessages ==
    \A i \in Slots :
        SkippedLocked(i) => \A k \in 1..Len(slot[i].msgs) :
                                Buffered(slot[i].msgs[k]) \/ Delivered(slot[i].msgs[k])

\* C4: when a generation call never returns, the deadline timer eventually
\* sets the user's lock to False, and a message sent afterwards is buffered,
\* flushed and passed to a new generation call: no user stays locked forever.
C4_LockEventuallyFree ==
    /\ \A u \in USER_WHITELIST : (locks[u] = TRUE) ~> (locks[u] = FALSE)
    /\ [][\A u \in USER_WHITELIST :
             (nmsgs' = nmsgs + 1 /\ slot'[nmsgs'].user = u /\ ~locks[u])
                 => slot'[nmsgs'].status = "accepted"]_vars

\* the backend call of i is still in flight after its deadline timer cleared
\* the lock, and a message received since then has reached its own backend call
C4_Witness ==
    \E i \in Slots, j \in Slots :
        /\ i < j
        /\ slot[i].user = slot[j].user
        /\ slot[i].rpc = "generating" /\ slot[i].wpc = "reset"
        /\ slot[j].rpc = "generating" /\ slot[j].msgs = << j >>
        /\ slot[j].turn > slot[i].resetAt

\* C5: every turn that starts ends with the user's lock False, whichever way
\* the reply thread exits (normal completion, backend error, an exception
\* while notifying, generating or sending, or inside the error handler).
C5_ReleaseOnEveryExit ==
    [][\A i \in Slots :
          (slot[i].rpc \notin {"none", "done"} /\ slot'[i].rpc = "done")
              => locks'[slot[i].user] = FALSE]_vars

\* a reply thread has ended after its error handler raised, with the lock False
C5_Witness ==
    \E i \in Slots :
        slot[i].rpc = "done" /\ slot[i].notice = "failed" /\ locks[slot[i].user] = FALSE

\* C6: a debounce timer cancelled by a newer message either never runs its
\* callback or the callback has no effect: the race between cancel and a
\* callback that is already firing never splits one burst into two flushes.
C6_NoSplitBurst ==
    \A i \in Slots, j \in Slots :
        (slot[i].user = slot[j].user /\ i < j /\ slot[i].lateCancel)
            => ~(Flushed(i) /\ Flushed(j))

\* C7: acquiring the lock is atomic: of two attempts to start a turn for the
\* same user with no release or watchdog reset between them, exactly one
\* proceeds and the other is refused.
C7_AtomicAcquire == \A i \in Slots : ~slot[i].raced

\* C8: after the watchdog force-cleared a user's lock and a newer turn has
\* started, the results of the older, late-completing generation are not
\* applied.
C8_NoStaleResults == \A i \in Slots : ~slot[i].stale

\* C9: merging the same extracted facts into a profile twice leaves the same
\* personal_info, preferences and important_topics as merging them once.
C9_MergeIdempotent ==
    \A u \in USER_WHITELIST, facts \in MergeInputs :
        LET once == update_user_summary(summaryFile[u], facts, clock + 1)
        IN  Merged(update_user_summary(once, facts, clock + 2)) = Merged(once)

\* C10: after any sequence of merges from an empty profile the persisted
\* important_topics has at most 10 entries and no two equal strings.
C10_TopicsBoundedDistinct ==
    \A u \in AllUsers :
        LET topics == summaryFile[u].important_topics
        IN  /\ Len(topics) <= 10
            /\ \A i \in 1..Len(topics), j \in 1..Len(topics) : i # j => topics[i] # topics[j]

\* a full list from which the oldest topic has been dropped
C10_Witness ==
    \E u \in USER_WHITELIST :
        LET topics == summaryFile[u].important_topics
        IN  /\ Len(topics) = 10
            /\ << "a" >> \notin Range(topics)
            /\ << "l" >> \in Range(topics)

\* the strings of the scenario of C11
Cafe == << "c", "a", "f", "é" >>
Te == << "t", "é" >>
CafeTe == Fact("preferences", "le_gusta", StrVal(<< "C", "a", "f", "é", ",", " ", "t", "é" >>))

\* C11: merging preferences.le_gusta = "Café, té" into a profile whose
\* preferences.le_gusta is "café" stores the sorted list ["café", "té"]
\* (values that differ only in letter case collapse to one entry).
C11_CaseFolded ==
    \A u \in USER_WHITELIST :
        LET prefs == summaryFile[u].preferences
        IN  ("le_gusta" \in DOMAIN prefs /\ prefs["le_gusta"] = StrVal(Cafe))
                => update_user_summary(summaryFile[u], CafeTe, clock + 1).preferences["le_gusta"]
                       = ListVal(<< Cafe, Te >>)

\* C12: a flush whose combined prompt is empty or whitespace-only issues no
\* generation call.
C12_NoCallOnBlankPrompt ==
    \A i \in Slots : slot[i].gen # "none" => Strip(slot[i].prompt) # << >>

\* message m is in some buffer list, or was taken from one by a callback
Queued(m) ==
    \/ \E o \in Slots : m \in Range(lists[o])
    \/ \E j \in Slots : m \in Range(slot[j].msgs)

\* C13: a message arriving while the user's lock is held is answered with the
\* please-wait notice and is not queued: the pending buffer, the debounce
\* timers, the lock flag and the deadline timers are left unchanged.
C13_RefusedWhileLocked ==
    /\ [](\A m \in Slots : slot[m].status = "refused" => slot[m].notice = "wait" /\ ~Queued(m))
    /\ [][\A u \in USER_WHITELIST :
             (nmsgs' = nmsgs + 1 /\ slot'[nmsgs'].user = u /\ locks[u])
                 => /\ slot'[nmsgs'].status = "refused"
                    /\ hpc' = "idle"
                    /\ UNCHANGED << locks, lock_timeouts, user_timers, user_pending_messages,
                                    lists >>
                    /\ \A i \in Slots : /\ slot'[i].dpc = slot[i].dpc
                                        /\ slot'[i].wpc = slot[i].wpc]_vars

\* a message was refused while the user's earlier turn is in the backend
C13_Witness ==
    \E i \in Slots, m \in Slots :
        /\ slot[i].user = slot[m].user
        /\ slot[i].rpc = "generating"
        /\ slot[m].status = "refused"

\* the backend call of turn i raised and its reply thread has left the try
\* body and its handler
FailedTurn(i) == slot[i].gen = "raised" /\ Ended(i)

MemoryFailed(i) == slot[i].exc = "memory" \/ slot[i].stored = "failed"

\* C15: a failure of the semantic memory store at any point of a turn does not
\* abort the turn: the generation backend is still called and (with no other
\* failure in the turn) the user receives the generated response, not an error
\* reply.
C15_MemoryFailureTolerated ==
    \A i \in Slots :
        (MemoryFailed(i) /\ Ended(i) /\ slot[i].exc \in {"none", "memory"})
            => /\ slot[i].gen = "returned"
               /\ slot[i].notice = "response" /\ slot[i].resp = "response"

\* a step leaves everything the scheduler holds for user b as it was: the lock
\* flag, the buffer and its content, the timers, the callbacks and the turns
Untouched(b) ==
    /\ locks'[b] = locks[b]
    /\ lock_timeouts'[b] = lock_timeouts[b]
    /\ user_timers'[b] = user_timers[b]
    /\ user_pending_messages'[b] = user_pending_messages[b]
    /\ user_pending_messages[b] # 0 =>
           lists'[user_pending_messages[b]] = lists[user_pending_messages[b]]
    /\ \A i \in SlotsOf(b) : slot'[i] = slot[i]

\* C16: for distinct users A and B, no step taken for A (message arrival,
\* debounce fire, turn start, generation, release, watchdog reset) changes B's
\* lock flag, pending buffer or timers: every step leaves all users but one
\* untouched, and a message of B is accepted whatever A's lock is.
C16_UsersIndependent ==
    /\ [][\E a \in AllUsers : \A b \in AllUsers \ {a} : Untouched(b)]_vars
    /\ [][\A b \in USER_WHITELIST :
             (nmsgs' = nmsgs + 1 /\ slot'[nmsgs'].user = b /\ ~locks[b])
                 => slot'[nmsgs'].status = "accepted" /\ Untouched(b)]_vars

\* the generations of two users are in flight together, each under its own
\* lock: B's message arrived, and its turn started, after A's
C16_Witness ==
    \E i \in Slots, j \in Slots :
        /\ slot[i].user # slot[j].user
        /\ slot[i].rpc = "generating" /\ slot[j].rpc = "generating"
        /\ slot[i].turn < slot[j].turn /\ i < j
        /\ locks[slot[i].user] /\ locks[slot[j].user]

\* the values of key k of a section after normalisation (none when absent)
ValuesOf(section, k) == IF k \in DOMAIN section THEN CleanSet(section[k]) ELSE {}

\* key k of the section holds exactly the values vs: a single string for one
\* value, a sorted list for two or more
HoldsUnion(section, k, vs) ==
    /\ Cardinality(vs) = 1 => k \in DOMAIN section /\ section[k] = StrVal(CHOOSE x \in vs : TRUE)
    /\ Cardinality(vs) >= 2 => k \in DOMAIN section /\ section[k] = ListVal(Sorted(vs))

\* C17: after a merge, each personal_info/preferences key named in the facts
\* holds a single string when exactly one distinct value survives
\* normalisation, and otherwise the sorted, duplicate-free list of the union
\* of its old and its new values.
C17_UnionStored ==
    \A u \in USER_WHITELIST, facts \in MergeInputs :
        LET old == summaryFile[u]
            new == update_user_summary(old, facts, clock + 1)
        IN  /\ \A k \in DOMAIN facts.personal_info :
                  HoldsUnion(new.personal_info, k,
                             ValuesOf(old.personal_info, k) \cup CleanSet(facts.personal_info[k]))
            /\ \A k \in DOMAIN facts.preferences :
                  HoldsUnion(new.preferences, k,
                             ValuesOf(old.preferences, k) \cup CleanSet(facts.preferences[k]))

\* a string that may be stored: not empty and not the sentinel in any letter case
Provided(x) == x # << >> /\ Lower(x) # Sentinel

\* every value of the section is a provided string or a list of such strings
AllProvided(section) ==
    \A k \in DOMAIN section :
        IF section[k].kind = "list"
        THEN \A n \in 1..Len(section[k].items) : Provided(section[k].items[n])
        ELSE Provided(section[k].s)

\* the merge of facts into profile old creates no key of the section whose
\* incoming values all normalise away
NoEmptyKey(old, facts, new) ==
    \A k \in DOMAIN facts : (k \notin DOMAIN old /\ CleanSet(facts[k]) = {}) => k \notin DOMAIN new

\* C18: after any sequence of merges no value stored in personal_info or
\* preferences is an empty string or equal (case-insensitively) to the
\* sentinel, and a key whose values all normalise away is not created.
C18_NoEmptyNoSentinel ==
    \A u \in USER_WHITELIST :
        /\ AllProvided(summaryFile[u].personal_info)
        /\ AllProvided(summaryFile[u].preferences)
        /\ \A facts \in MergeInputs :
              LET new == update_user_summary(summaryFile[u], facts, clock + 1)
              IN  /\ NoEmptyKey(summaryFile[u].personal_info, facts.personal_info,
                                new.personal_info)
                  /\ NoEmptyKey(summaryFile[u].preferences, facts.preferences, new.preferences)

\* "b,, No se proporcionó" was merged as a ciudad and only "b" is stored, and
\* merging the sentinel as a nombre creates no nombre
C18_Witness ==
    \E u \in USER_WHITELIST :
        LET info == summaryFile[u].personal_info
        IN  /\ "ciudad" \in DOMAIN info /\ info["ciudad"] = StrVal(<< "b" >>)
            /\ "nombre" \notin DOMAIN info
            /\ update_user_summary(summaryFile[u], Fact("personal_info", "nombre", StrVal(CapSentinel)),
                                   clock + 1).personal_info = info

\* topics with each entry of new that is not yet in the list appended at the
\* end, in the order given
RECURSIVE AppendInOrder(_, _)
AppendInOrder(topics, new) ==
    IF new = << >> THEN topics
    ELSE AppendInOrder(IF Head(new) \in Range(topics) THEN topics ELSE Append(topics, Head(new)),
                       Tail(new))

\* C19: merging topics appends each incoming topic that is not already in the
\* list (exact string match) to the end of the existing important_topics,
\* existing entries in their order and new ones in the order given, and then
\* keeps the last 10 entries.
C19_TopicsInOrderGiven ==
    \A u \in USER_WHITELIST, facts \in MergeInputs :
        update_user_summary(summaryFile[u], facts, clock + 1).important_topics
            = LastTopics(AppendInOrder(summaryFile[u].important_topics, facts.important_topics))

\* the number of whitespace-separated words of s: the positions where a word
\* begins
WordCount(s) ==
    Cardinality({i \in 1..Len(s) : ~IsSpace(s[i]) /\ (i = 1 \/ IsSpace(s[i - 1]))})

\* s holds the phrase kw when letter case is ignored
HoldsPhrase(s, kw) ==
    \E p \in 1..(Len(s) - Len(kw) + 1) :
        \A j \in 1..Len(kw) : LowerChar(s[p + j - 1]) = LowerChar(kw[j])

\* the phrases configured in keywordPhrases.txt
Configured == { << "P", "r", "o", "y", "e", "c", "t", "o" >>, << "m", "e", " ", "g", "u", "s", "t", "a" >> }

\* the update is due for the prompt: a configured keyword, a
\* personal-disclosure pattern, or more than 20 words
UpdateDue(prompt) ==
    \/ \E kw \in Configured : HoldsPhrase(prompt, kw)
    \/ \E n \in 1..Len(patterns) : re_search(patterns[n], Lower(prompt))
    \/ WordCount(prompt) > 20

\* the last turn logged for u
LastTurn(u) == log'[u][Len(log'[u])]

\* C20: should_update_summary(prompt, response) returns true exactly when the
\* prompt holds a configured keyword (case-insensitively), or matches a
\* personal-disclosure pattern, or has more than 20 whitespace-separated
\* words, whatever the response: a logged turn rewrites the profile exactly
\* in these cases.
C20_UpdateExactlyWhenDue ==
    [][\A u \in USER_WHITELIST :
          log'[u] # log[u] =>
              /\ should_update_summary(LastTurn(u).message, LastTurn(u).response)
                     <=> UpdateDue(LastTurn(u).message)
              /\ summaryFile'[u] # summaryFile[u] <=> UpdateDue(LastTurn(u).message)]_vars

\* one user sent 20 words with a keyword in the response only and the profile
\* was not rewritten; the other sent 21 words and the profile was rewritten
C20_Witness ==
    \E u \in USER_WHITELIST, v \in USER_WHITELIST :
        /\ Len(log[u]) = 1 /\ WordCount(log[u][1].message) = 20
        /\ Contains(log[u][1].response, load_keyword_phrases[1])
        /\ summaryFile[u] = EmptyProfile
        /\ Len(log[v]) = 1 /\ WordCount(log[v][1].message) = 21
        /\ summaryFile[v].last_updated > 0

\* log a is the beginning of log b
IsPrefix(a, b) == Len(a) <= Len(b) /\ \A k \in 1..Len(a) : b[k] = a[k]

\* C23: the per-user interaction log is append-only: each turn whose
\* generation succeeds adds exactly one record at the end of that user's log,
\* and no step removes, reorders or modifies a record already there.
C23_LogAppendOnly ==
    [][\A u \in AllUsers :
          /\ IsPrefix(log[u], log'[u])
          /\ \A i \in SlotsOf(u) :
                (slot[i].rpc = "logging" /\ slot'[i].rpc = "send")
                    => /\ Len(log'[u]) = Len(log[u]) + 1
                       /\ log'[u][Len(log'[u])].turn = slot[i].turn]_vars

\* turn j has set the lock (line 75) and has not yet released it (line 94)
Holding(j) ==
    slot[j].rpc \in {"mktimer", "start", "notify", "generating", "logging", "send", "except",
                     "finally", "release"}

\* i and j are turns of one user, and i started before j
Older(i, j) == slot[i].user = slot[j].user /\ slot[i].turn > 0 /\ slot[i].turn < slot[j].turn

\* C25: a user's lock taken by a turn is cleared only by that turn's release or
\* by the deadline timer that turn armed: neither the release nor the deadline
\* timer of an older turn clears the lock, or cancels the deadline timer, of a
\* newer turn that is in flight.
C25_OnlyOwnRelease ==
    [][\A i \in Slots, j \in Slots :
          (Older(i, j) /\ Holding(j)) =>
              /\ (slot[i].rpc = "release" /\ slot'[i].rpc = "done" /\ locks[slot[j].user])
                     => locks'[slot[j].user]
              /\ (slot[i].wpc = "armed" /\ slot'[i].wpc # "armed" /\ locks[slot[j].user])
                     => locks'[slot[j].user]
              /\ (slot[i].rpc = "finally" /\ slot'[i].rpc = "release")
                     => slot'[j].wpc = slot[j].wpc]_vars

\* C26: after a turn's release (the finally block of the reply thread) the
\* lock flag is False and the deadline timer armed by that turn is cancelled,
\* so it can never fire later.
C26_ReleaseDisarms ==
    /\ [](\A i \in Slots : slot[i].rpc = "done" => slot[i].wpc # "armed")
    /\ [][\A i \in Slots :
             (slot[i].rpc = "release" /\ slot'[i].rpc = "done") => ~locks'[slot[i].user]]_vars

\* the callbacks that handed a prompt holding message m to process_user_message
HandedIn(m) == {j \in Slots : Flushed(j) /\ m \in Range(slot[j].msgs)}

\* C27: every accepted message is included in at most one combined prompt: no
\* message text is handed to process_user_message twice, under any
\* interleaving of message arrivals and debounce-timer callbacks.
C27_HandedInOnce == \A m \in Slots : Cardinality(HandedIn(m)) <= 1

\* the pending buffer of u holds a message
BufferNonEmpty(u) ==
    user_pending_messages[u] # 0 /\ lists[user_pending_messages[u]] # << >>

\* a debounce timer of u is armed, or its callback is running
TimerPending(u) ==
    \E i \in SlotsOf(u) : slot[i].dpc \in {"armed", "read", "join", "del", "process"}

\* handle_message is inside schedule_debounced_response for u, past the cancel
\* of line 58 and before the start of line 64
Scheduling(u) == hpc \in {"ensure", "append"} /\ slot[cur].user = u

\* C28 (as stated): whenever a user's pending buffer is non-empty, a debounce
\* timer of that user is armed or its callback is running.
C28_FlushPending == \A u \in AllUsers : BufferNonEmpty(u) => TimerPending(u)

\* C28 (amended): whenever a user's pending buffer is non-empty, a debounce
\* timer of that user is armed, or its callback is running, or the handler of
\* a new message of that user has cancelled the timer and is about to start
\* the next one: buffered messages are never left without a coming flush.
C28_FlushPendingOrScheduling ==
    \A u \in AllUsers : BufferNonEmpty(u) => (TimerPending(u) \/ Scheduling(u))

\* a second message is being queued behind a buffered one whose timer has
\* been cancelled
C28_Witness ==
    \E u \in USER_WHITELIST :
        /\ BufferNonEmpty(u) /\ ~TimerPending(u) /\ hpc = "append" /\ slot[cur].user = u
        /\ \E i \in SlotsOf(u) : slot[i].dpc = "cancelled" /\ Buffered(i)

\* the debounce timers of u that are started, not cancelled and not yet fired
ArmedTimers(u) == {i \in SlotsOf(u) : slot[i].dpc = "armed"}

\* C29: for each user at most one debounce timer is armed at any time: every
\* newly accepted message cancels the previous timer before arming a new one.
C29_OneArmedTimer ==
    /\ [](\A u \in AllUsers : Cardinality(ArmedTimers(u)) <= 1)
    /\ [][\A i \in Slots :
             (slot[i].dpc # "armed" /\ slot'[i].dpc = "armed")
                 => \A j \in Slots \ {i} :
                        slot[j].user = slot'[i].user => slot[j].dpc # "armed"]_vars

\* two timers of the user were cancelled by later messages and the third is
\* armed
C29_Witness ==
    \E i \in Slots, j \in Slots, k \in Slots :
        /\ i < j /\ j < k
        /\ slot[i].dpc = "cancelled" /\ slot[j].dpc = "cancelled" /\ slot[k].dpc = "armed"
        /\ user_timers[slot[k].user] = k

\* C30: whenever a user's lock flag is True, some reply thread of that user
\* has started and has not yet executed its release: the lock is never True
\* with no turn in flight.
C30_LockedMeansTurnInFlight ==
    \A u \in AllUsers : locks[u] => \E i \in SlotsOf(u) : Holding(i)

\* the lock is held by a turn after an earlier turn of the user has released it
C30_Witness ==
    \E i \in Slots, j \in Slots :
        /\ Older(i, j)
        /\ slot[i].rpc = "done" /\ slot[j].rpc = "generating"
        /\ locks[slot[j].user]

\* C24: after ensure_required_files(base) returns, started on a base
\* directory that holds any subset of the required directories and files,
\* every entry of REQUIRED_DIRS is a directory under base and every key of
\* REQUIRED_FILES is a regular file under base (and the call does return).
C24_RequiredFilesPresent ==
    /\ boot.pc # "error"
    /\ boot.pc = "done" =>
           /\ \A n \in 1..Len(REQUIRED_DIRS) : boot.fs[REQUIRED_DIRS[n]].kind = "dir"
           /\ \A n \in 1..Len(REQUIRED_FILES) : boot.fs[REQUIRED_FILES[n].path].kind = "file"

\* the call has returned after creating logs and messages/__init__.py and
\* leaving alone a history/__init__.py that held another text
C24_Witness ==
    /\ boot.pc = "done"
    /\ {"logs", "messages/__init__.py"} \subseteq boot.created
    /\ boot.fs["messages"] = Dir
    /\ "history/__init__.py" \notin boot.created
    /\ boot.fs["history/__init__.py"] = File("other")

----------------------------------------------------------------------------
(* Properties of one reply thread in full text.                            *)

\* none of the three fallback patterns matches the prompt
FallbackFindsNothing(prompt) ==
    LET low == Lower(prompt)
    IN  /\ ~fallback_search(NamePhrases, low).found
        /\ ~fallback_search(WorkPhrases, low).found
        /\ ~fallback_search(LikePhrases, low).found

\* the turn of reply thread r, the last one of logs l, was logged and its
\* extraction failed
ExtractionFailedIn(r, l) ==
    /\ r.kind = "response"
    /\ \/ r.ai = "raise"
       \/ r.ai = "nojson" /\ FallbackFindsNothing(l[r.user][Len(l[r.user])].message)

ExtractionFailed == ExtractionFailedIn(reply, log)

\* generate_response has just returned to the reply thread
Returned == reply.pc # "send" /\ reply'.pc = "send"

\* C21: when fact extraction fails (the extraction call raises, or its output
\* holds no JSON object and no fallback pattern matches the prompt), the
\* persisted profile is left as it was, generate_response returns the logged
\* response and not an error text, and a reply thread whose sends all succeed
\* has delivered exactly that response and no error notice.
C21_FailedExtractionSilent ==
    /\ [][Returned /\ ExtractionFailedIn(reply', log')
             => /\ summaryFile' = summaryFile
                /\ reply'.response = LastTurn(reply'.user).response]_vars
    /\ [](reply.pc = "sent" /\ ExtractionFailed
             => /\ Join(reply.sent, << >>) = log[reply.user][Len(log[reply.user])].response
                /\ reply.notice = "none")

\* the second turn's extraction returned no JSON object for "tengo 30", the
\* profile still carries the time of the first turn, and the response was
\* delivered
C21_Witness ==
    /\ reply.pc = "sent"
    /\ reply.ai = "nojson"
    /\ ExtractionFailed
    /\ clock = 2
    /\ summaryFile[1].last_updated = 1
    /\ summaryFile[1].personal_info # EmptyDict
    /\ reply.sent = << << "o", "k" >> >>

\* C22: the reply thread sends the response as consecutive chunks in order,
\* each of 1 to 4096 characters: what has been sent is always a prefix of the
\* response, it is the whole response when the loop has ended, and a
\* non-empty response of at most 4096 characters is sent as exactly one chunk.
C22_ChunksRebuildResponse ==
    /\ \A k \in 1..Len(reply.sent) :
           /\ Len(reply.sent[k]) >= 1
           /\ Len(reply.sent[k]) <= MAX_MESSAGE_LENGTH
           /\ k < Len(reply.sent) => Len(reply.sent[k]) = MAX_MESSAGE_LENGTH
    /\ IsPrefix(Join(reply.sent, << >>), reply.response)
    /\ reply.pc = "sent"
         => /\ Join(reply.sent, << >>) = reply.response
            /\ Len(reply.response) \in 1..MAX_MESSAGE_LENGTH => Len(reply.sent) = 1

\* an error text of 8193 characters has been sent as three chunks
C22_Witness ==
    /\ reply.pc = "sent"
    /\ Len(reply.response) = 2 * MAX_MESSAGE_LENGTH + 1
    /\ Len(reply.sent) = 3
    /\ Len(reply.sent[3]) = 1

----------------------------------------------------------------------------
(* Frame and order properties of a turn.                                   *)

\* C31: when the backend call of a turn raises, that turn stores nothing in
\* the memory store, appends no record to the interaction log and merges
\* nothing into the profile: the step in which the call raises and every
\* later step of the turn leave the three stores as they are, and neither the
\* memory nor the log of the user holds an entry of the turn.
C31_RaisedTurnStoresNothing ==
    /\ [][\A i \in Slots :
             (slot'[i].gen = "raised" /\ slot'[i] # slot[i])
                 => /\ memory' = memory
                    /\ log' = log
                    /\ summaryFile' = summaryFile]_vars
    /\ [](\A i \in Slots :
            slot[i].gen = "raised"
                => /\ \A k \in 1..Len(memory[slot[i].user]) : memory[slot[i].user][k] # i
                   /\ \A k \in 1..Len(log[slot[i].user]) :
                          log[slot[i].user][k].turn # slot[i].turn)

\* a user has had a turn whose backend call raised and a turn that was stored
\* and logged; the memory and the log hold the second turn only
C31_Witness ==
    \E i, j \in Slots :
        /\ slot[i].user = slot[j].user
        /\ slot[i].gen = "raised" /\ slot[i].rpc = "done"
        /\ slot[j].gen = "returned" /\ slot[j].rpc = "done"
        /\ memory[slot[i].user] = << j >>
        /\ Len(log[slot[i].user]) = 1
        /\ log[slot[i].user][1].turn = slot[j].turn

\* C32: when should_update_summary returns false for a turn,
\* update_user_summary makes no extraction call and leaves the persisted
\* profile, last_updated included, as it was.
C32_NoUpdateNoExtraction ==
    [][(Returned /\ reply'.kind = "response"
          /\ ~should_update_summary(LastTurn(reply'.user).message,
                                    LastTurn(reply'.user).response))
          => /\ reply'.ai = "none"
             /\ summaryFile' = summaryFile]_vars

\* the second turn, "amo leer", holds a liking the fallback would find but is
\* not due for an update: no extraction was made and the profile still
\* carries the name and the time of the first turn
C32_Witness ==
    /\ clock = 2
    /\ reply.pc = "sent" /\ reply.kind = "response" /\ reply.ai = "none"
    /\ log[1][Len(log[1])].message = << "a", "m", "o", " ", "l", "e", "e", "r" >>
    /\ ~FallbackFindsNothing(log[1][Len(log[1])].message)
    /\ summaryFile[1].last_updated = 1
    /\ "nombre" \in DOMAIN summaryFile[1].personal_info
    /\ summaryFile[1].preferences = EmptyDict

\* the merge that turned section old into section new, given the facts of the
\* section, kept every key, kept every value of every key, and left the keys
\* the facts do not name as they were
Kept(old, facts, new) ==
    \A k \in DOMAIN old :
        /\ k \in DOMAIN new
        /\ CleanSet(old[k]) \subseteq CleanSet(new[k])
        /\ k \notin DOMAIN facts => new[k] = old[k]

\* C33: a merge removes nothing: every personal_info/preferences key of the
\* persisted profile is still there after save_user_summary, every value
\* stored under a key (after the normalisation of clean_values) is still
\* among the key's values, and a key the incoming facts do not name holds
\* what it held.
C33_MergeKeepsAll ==
    \A u \in USER_WHITELIST, facts \in MergeInputs :
        LET old == summaryFile[u]
            new == update_user_summary(old, facts, clock + 1)
        IN  /\ Kept(old.personal_info, facts.personal_info, new.personal_info)
            /\ Kept(old.preferences, facts.preferences, new.preferences)

\* "Café, té", then "café", then the trabajo list were merged: the first two
\* likings are still stored and the trabajo was added beside them
C33_Witness ==
    \E u \in USER_WHITELIST :
        /\ clock = MaxMerges
        /\ "le_gusta" \in DOMAIN summaryFile[u].preferences
        /\ {<< "C", "a", "f", "é" >>, Te, Cafe} \subseteq CleanSet(summaryFile[u].preferences["le_gusta"])
        /\ "trabajo" \in DOMAIN summaryFile[u].personal_info
        /\ summaryFile[u].personal_info["trabajo"] = ListVal(<< << "a" >>, << "b" >> >>)

\* C34: with the allow-list enabled, a message of a sender outside it is
\* answered with the not-authorized notice and changes nothing: the handler
\* returns with the locks, the timers, the buffers and the stores as they
\* were, the message is never queued, and no timer, reply thread or backend
\* call ever exists for it or for its sender.
C34_UnauthorizedChangesNothing ==
    /\ [][\A u \in AllUsers :
             (WHITELIST /\ u \notin USER_WHITELIST
                /\ nmsgs' = nmsgs + 1 /\ slot'[nmsgs'].user = u)
                 => /\ slot'[nmsgs'].status = "unauthorized"
                    /\ slot'[nmsgs'].notice = "unauthorized"
                    /\ hpc' = "idle"
                    /\ UNCHANGED << locks, lock_timeouts, user_timers, user_pending_messages,
                                    lists, nturns, log, memory, summaryFile >>
                    /\ \A i \in Slots \ {nmsgs'} : slot'[i] = slot[i]]_vars
    /\ [](\A m \in Slots :
            (slot[m].user # 0 /\ WHITELIST /\ slot[m].user \notin USER_WHITELIST)
                => /\ slot[m].status = "unauthorized"
                   /\ slot[m].notice = "unauthorized"
                   /\ ~Queued(m)
                   /\ slot[m].dpc = "none" /\ slot[m].rpc = "none" /\ slot[m].wpc = "none"
                   /\ slot[m].gen = "none" /\ slot[m].ncalls = 0
                   /\ ~locks[slot[m].user]
                   /\ user_timers[slot[m].user] = 0
                   /\ user_pending_messages[slot[m].user] = 0
                   /\ lock_timeouts[slot[m].user] = 0)

\* a sender outside the allow-list was turned away after the message of
\* another user, whose turn has ended with its response sent
C34_Witness ==
    \E m, i \in Slots :
        /\ i < m
        /\ slot[m].status = "unauthorized"
        /\ slot[i].rpc = "done" /\ slot[i].gen = "returned"
        /\ slot[i].notice = "response"

\* the steps of turn i: the lock was set by its reply thread, its backend
\* call was made, its reply thread has cleared the lock, its interaction was
\* logged and its facts folded into the profile, its response was sent
Acquired(i) == slot[i].rpc \notin {"none", "lock"}
Invoked(i) == slot[i].ncalls > 0
Released(i) == slot[i].rpc = "done"
Persisted(i) == slot[i].gen = "returned" /\ slot[i].rpc # "logging"
Dispatched(i) == slot[i].notice = "response"

\* C35: in each successful turn the lock is acquired, then the backend is
\* invoked, then the lock is released, then the profile facts are extracted,
\* merged and persisted, and only then is the reply sent: at every moment of
\* a turn that has not failed, each of these steps has happened only if the
\* step before it has.
C35_OrderAsStated ==
    \A i \in Slots :
        (slot[i].gen # "raised" /\ slot[i].exc = "none")
            => /\ Invoked(i) => Acquired(i)
               /\ Released(i) => Invoked(i)
               /\ Persisted(i) => Released(i)
               /\ Dispatched(i) => Persisted(i)

\* C36: ensure_required_files never overwrites or modifies a file or a
\* directory that is already there, and a second call leaves the file system
\* as the first call left it: no step changes a path that holds something,
\* and no step of a second call changes any path.
C36_ExistingKeptSecondCallNothing ==
    /\ [][\A q \in Paths : boot.fs[q] # Absent => boot'.fs[q] = boot.fs[q]]_vars
    /\ [][boot.calls >= 2 => boot'.fs = boot.fs]_vars

\* the second call has returned; the first one had created logs and
\* messages/__init__.py beside a history/__init__.py that holds another text
C36_Witness ==
    /\ boot.calls = 2
    /\ boot.pc = "done"
    /\ {"logs", "messages/__init__.py"} \subseteq boot.created
    /\ boot.fs["messages/__init__.py"] = File(REQUIRED_FILES[1].content)
    /\ boot.fs["history/__init__.py"] = File("other")

====
